---- MODULE Spec2Model ----
(***************************************************************************)
(* rvim: the Shell Session of src/cli/shell.rs and the editor core of      *)
(* src/cli/editor.rs and src/cli/window.rs as state machines.              *)
(*                                                                         *)
(* Shell Session: one foreground thread calls the public methods of one    *)
(* Shell value; two background reader threads forward the child's stdout   *)
(* and stderr lines into one mpsc channel; the child process is part of    *)
(* the environment.  (Spec, FairSpec, ReaderSpec, ShareSpec, ExitSpec,     *)
(* and InputSpec for the input line and the command history)               *)
(*                                                                         *)
(* Editor: main constructs the Editor, opens a file and runs the main      *)
(* loop, which handles one key per iteration through the Mode state        *)
(* machine.  (EditorSpec, WindowSpec)                                      *)
(*                                                                         *)
(* Documents: a Buffer and its Document, of src/cli/buffer.rs or of        *)
(* src/cli/editor.rs, under load, edit and save.  (DocSpec)                *)
(*                                                                         *)
(* Tabs: the TabManager of src/cli/tabs.rs.  (TabSpec)                     *)
(*                                                                         *)
(* File tree: the FileTree of src/cli/filetree.rs over a directory that    *)
(* other programs change.  (TreeSpec)                                      *)
(***************************************************************************)
EXTENDS Integers, Sequences, FiniteSets, TLC

(***************************************************************************)
(* Bounds of the model.                                                    *)
(***************************************************************************)
\* Lines the child writes, to its two output streams together.
MaxOut == 3
\* execute_command calls the foreground thread makes.
MaxCommands == 1

(***************************************************************************)
(* Text.  A string is a sequence of one-character strings.                 *)
(***************************************************************************)
ExitText == <<"e", "x", "i", "t">>
\* The input lines the user types in the model.
TypedLines == { ExitText, <<"l", "s">> }

IsPrefix(s, t) == Len(s) <= Len(t) /\ SubSeq(t, 1, Len(s)) = s

IsWhitespace(c) == c = " "
RECURSIVE trim_start(_)
trim_start(s) ==
    IF s = <<>> THEN s
    ELSE IF IsWhitespace(Head(s)) THEN trim_start(Tail(s)) ELSE s
RECURSIVE trim_end(_)
trim_end(s) ==
    IF s = <<>> THEN s
    ELSE IF IsWhitespace(s[Len(s)]) THEN trim_end(SubSeq(s, 1, Len(s) - 1)) ELSE s
trim(s) == trim_end(trim_start(s))

(***************************************************************************)
(* Lines of the session's line buffer: the editor's own messages and the   *)
(* lines read from the child's streams (the k-th line of a stream).        *)
(***************************************************************************)
Streams == { "stdout", "stderr" }
RvimLine(t) == [src |-> "rvim", text |-> t]
StreamLine(s, k) == [src |-> s, text |-> ToString(k)]
StreamLines(s, n) == [k \in 1..n |-> StreamLine(s, k)]
FromStream(ls, s) == SelectSeq(ls, LAMBDA l : l.src = s)

\* enum ShellOutput
OutLine(l) == [kind |-> "Line", line |-> l]
Terminated == [kind |-> "Terminated", line |-> RvimLine("")]
RECURSIVE LinesOf(_)
LinesOf(q) ==
    IF q = <<>> THEN <<>>
    ELSE IF Head(q).kind = "Line" THEN <<Head(q).line>> \o LinesOf(Tail(q))
         ELSE LinesOf(Tail(q))

VARIABLES
    shell,      \* the fields of the Shell struct
    proc,       \* the child process: "none", "alive", "exited" (zombie), "reaped"
    chan,       \* items sent on the mpsc channel and not yet received
    reader,     \* each reader thread: "none", "reading", "done"
    consumed,   \* lines each reader thread has read from its stream as Ok(l)
    stdin_pipe, \* the write end of the child's stdin pipe: "none", "open", "closed"
    stdin_data, \* lines written to the child's standard input
    pc,         \* where the foreground thread is
    call,       \* the input line and the result of execute_command, when it was the last call
    calls,      \* number of execute_command calls made
    dropLog,    \* the steps Drop has performed, in order
    todo,       \* the statements Drop has still to execute
    clone_live, \* TRUE when a second Shell value, cloned from `shell`, is live
    ed,         \* the fields of the Editor struct and the state of Editor::run
    buf,        \* a Buffer with its Document, and what the last call on it returned
    disk,       \* the content of the file the Document is loaded from and saved to
    tm,         \* the fields of the TabManager, and what the last call on it returned
    ft,         \* the fields of the FileTree, and what the last call on it returned
    fs          \* the entries that exist in the directory under the FileTree's root

vars == <<shell, proc, chan, reader, consumed, stdin_pipe, stdin_data, pc, call,
          calls, dropLog, todo, clone_live, ed, buf, disk, tm, ft, fs>>

(***************************************************************************)
(* The editor of src/cli/editor.rs: windows, buffers and the Mode state.   *)
(* Indices (active_buffer, active_window) count from 0, as in the source.  *)
(***************************************************************************)
\* The terminal size terminal::size() reports.
TermCols == 4
TermRows == 5
\* Window splits made and buffers open.
MaxSplits == 2
MaxBuffers == 2

\* enum Mode
Modes == { "Normal", "Insert", "Visual", "Command", "FileTree", "Shell" }
\* enum SplitType
SplitTypes == { "Horizontal", "Vertical" }

\* Mutant of Window_new: a new window is not flagged active.
Window_new_inactive(x, y, width, height) ==
    [ x |-> x, y |-> y, width |-> width, height |-> height,
      file_path |-> "None", is_active |-> FALSE ]

\* Window::new
Window_new(x, y, width, height) ==
    [ x |-> x, y |-> y, width |-> width, height |-> height,
      file_path |-> "None", is_active |-> TRUE ]

\* Buffer::new, Buffer::from_file and Buffer::from_shell of editor.rs.
Buffer_new == [ is_shell |-> FALSE, is_horizontal |-> FALSE, filename |-> "None" ]
Buffer_from_file(f) == [ is_shell |-> FALSE, is_horizontal |-> FALSE, filename |-> f ]
Buffer_from_shell(is_horizontal) ==
    [ is_shell |-> TRUE, is_horizontal |-> is_horizontal, filename |-> "None" ]

\* Editor::new; polled is the set of the buffers whose Shell had poll_output
\* called in the last iteration of the main loop, splits counts the window
\* splits made, and run is where main is: "start" before Editor::run, "startup
\* Err" when main has returned an error before it, "loop" while the main
\* loop reads events, "Ok" or "Err" once Editor::run has returned.
Editor_new ==
    [ buffers |-> << Buffer_new >>,
      active_buffer |-> 0,
      mode |-> "Normal",
      command_line |-> <<>>,
      quit |-> FALSE,
      waiting_for_second_key |-> FALSE,
      tree_visible |-> FALSE,
      previous_mode |-> "Normal",
      windows |-> << Window_new(0, 0, TermCols, TermRows - 2) >>,
      active_window |-> 0,
      run |-> "start",
      splits |-> 0,
      polled |-> {} ]

(***************************************************************************)
(* Documents.  src/cli/editor.rs and src/cli/buffer.rs each define a       *)
(* Buffer and a Document; impl names the file.  A String is a sequence of  *)
(* one-character strings, all of them ASCII.  The Document of buffer.rs    *)
(* keeps a ropey Rope next to its lines; Rope::insert_char and             *)
(* Rope::remove panic on a position past the end of the rope, and          *)
(* `panicked` is TRUE once a call has panicked.                            *)
(***************************************************************************)
MaxFile == 3

Impls == { "editor", "buffer" }
Newline == "\n"
FileChars == { "a", Newline }
InsertChars == { "b" }

\* The contents of the file before the program touches it.
FileContents == UNION { [ 1..n -> FileChars ] : n \in 0..MaxFile }

\* [String]::join("\n")
RECURSIVE join(_)
join(lines) ==
    IF lines = <<>> THEN <<>>
    ELSE IF Len(lines) = 1 THEN lines[1]
    ELSE lines[1] \o << Newline >> \o join(Tail(lines))

\* str::lines: the text is split at each newline, and the text after the
\* last newline is a line only when it is not empty.
RECURSIVE str_lines(_)
str_lines(content) ==
    IF content = <<>> THEN <<>>
    ELSE IF \E i \in 1..Len(content) : content[i] = Newline
    THEN LET i == CHOOSE k \in 1..Len(content) :
                      /\ content[k] = Newline
                      /\ \A m \in 1..(k - 1) : content[m] # Newline
         IN  << SubSeq(content, 1, i - 1) >>
                 \o str_lines(SubSeq(content, i + 1, Len(content)))
    ELSE << content >>

\* String::insert and String::remove at a byte offset within the string.
String_insert(line, col, c) ==
    SubSeq(line, 1, col) \o << c >> \o SubSeq(line, col + 1, Len(line))
String_remove(line, col) ==
    SubSeq(line, 1, col) \o SubSeq(line, col + 2, Len(line))

Document_new(impl) ==
    [ impl |-> impl, lines |-> << <<>> >>, filename |-> "None",
      modified |-> FALSE, rope |-> <<>>, panicked |-> FALSE ]

\* Document::from_file when fs::read_to_string returns content.  Only the
\* Document of editor.rs replaces an empty vector of lines by one empty line.
Document_from_file(impl, filename, content) ==
    [ impl |-> impl,
      lines |-> IF impl = "editor" /\ str_lines(content) = <<>>
                THEN << <<>> >> ELSE str_lines(content),
      filename |-> filename,
      modified |-> FALSE,
      rope |-> IF impl = "buffer" THEN content ELSE <<>>,
      panicked |-> FALSE ]

\* Mutant of Document_save: a Document without a filename is written to the
\* file all the same.
Document_save_unnamed(d, content, io) ==
    IF io THEN [ d |-> [ d EXCEPT !.modified = FALSE ], disk |-> join(d.lines), res |-> "Ok" ]
    ELSE [ d |-> d, disk |-> content, res |-> "Io" ]

\* Document::save; content is what the file holds and io is whether
\* fs::write succeeds.
Document_save(d, content, io) ==
    IF d.filename # "None"
    THEN IF io
         THEN [ d |-> [ d EXCEPT !.modified = FALSE ], disk |-> join(d.lines), res |-> "Ok" ]
         ELSE [ d |-> d, disk |-> content, res |-> "Io" ]
    ELSE [ d |-> d, disk |-> content, res |-> "No filename specified" ]

\* Document::get_char_position of buffer.rs
RECURSIVE get_char_position(_, _, _)
get_char_position(d, row, col) ==
    IF row = 0 THEN col
    ELSE Len(d.lines[row]) + 1 + get_char_position(d, row - 1, 0) + col

\* Document::insert_char.  In buffer.rs the line is changed first and the
\* rope second.
insert_char(d, row, col, c) ==
    IF row >= Len(d.lines) THEN d
    ELSE LET line == d.lines[row + 1]
             l == [ d EXCEPT !.lines[row + 1] =
                        IF col > Len(line) THEN Append(line, c)
                        ELSE String_insert(line, col, c) ]
             pos == get_char_position(l, row, col)
         IN  IF d.impl = "editor" THEN [ l EXCEPT !.modified = TRUE ]
             ELSE IF pos > Len(d.rope) THEN [ l EXCEPT !.panicked = TRUE ]
             ELSE [ l EXCEPT !.rope = String_insert(d.rope, pos, c),
                             !.modified = TRUE ]

\* Document::delete_char; removed is the value it returns.
delete_char(d, row, col) ==
    IF row >= Len(d.lines) THEN [ d |-> d, removed |-> FALSE ]
    ELSE LET line == d.lines[row + 1]
             l == [ d EXCEPT !.lines[row + 1] = String_remove(line, col) ]
             pos == get_char_position(l, row, col)
         IN  IF col < Len(line)
             THEN IF d.impl = "editor"
                  THEN [ d |-> [ l EXCEPT !.modified = TRUE ], removed |-> TRUE ]
                  ELSE IF pos + 1 > Len(d.rope)
                  THEN [ d |-> [ l EXCEPT !.panicked = TRUE ], removed |-> FALSE ]
                  ELSE [ d |-> [ l EXCEPT !.rope = String_remove(d.rope, pos),
                                          !.modified = TRUE ],
                         removed |-> TRUE ]
             ELSE [ d |-> d, removed |-> FALSE ]

\* Buffer::new, Buffer::from_file and Buffer::from_shell, with the Document
\* each of them builds; res is what the last call on the buffer returned.
DocBuffer_new(impl) ==
    [ is_shell |-> FALSE, document |-> Document_new(impl), res |-> "none" ]
DocBuffer_from_file(impl, filename, content) ==
    [ is_shell |-> FALSE, document |-> Document_from_file(impl, filename, content),
      res |-> "Ok" ]
DocBuffer_from_shell(impl) ==
    [ is_shell |-> TRUE, document |-> Document_new(impl), res |-> "none" ]

\* Buffer::save
DocBuffer_save(b, content, io) ==
    IF b.is_shell
    THEN [ b |-> [ b EXCEPT !.res = "Cannot save shell buffer" ], disk |-> content ]
    ELSE LET s == Document_save(b.document, content, io)
         IN  [ b |-> [ b EXCEPT !.document = s.d, !.res = s.res ], disk |-> s.disk ]

(***************************************************************************)
(* The TabManager of src/cli/tabs.rs.  A Tab is its id and its name (the   *)
(* Buffer it owns plays no part in the manager's bookkeeping); tab_map is  *)
(* the set of the HashMap's <<name, id>> entries; res is what the last     *)
(* call returned.                                                          *)
(***************************************************************************)
MaxTabs == 3
TabNames == { "a", "b", "c", "d" }

TabManager_new ==
    [ tabs |-> <<>>, current_tab |-> 0, tab_map |-> {}, next_id |-> 0,
      res |-> << "none" >> ]

contains_key(m, k) == \E p \in m : p[1] = k
\* HashMap::insert: the entry of an existing key is replaced.
map_insert(m, k, v) == { p \in m : p[1] # k } \cup { << k, v >> }

\* Mutant of create_tab: next_id is not advanced.
create_tab_reuse_id(self, name) ==
    IF contains_key(self.tab_map, name)
    THEN [ self EXCEPT !.res = << "TabExists", name >> ]
    ELSE [ self EXCEPT !.tabs = Append(@, [ id |-> self.next_id, name |-> name ]),
                       !.tab_map = map_insert(@, name, self.next_id),
                       !.res = << "Ok", self.next_id >> ]

\* Mutant of create_tab: the new tab becomes the current one.
create_tab_select(self, name) ==
    IF contains_key(self.tab_map, name)
    THEN [ self EXCEPT !.res = << "TabExists", name >> ]
    ELSE [ self EXCEPT !.next_id = @ + 1,
                       !.tabs = Append(@, [ id |-> self.next_id, name |-> name ]),
                       !.tab_map = map_insert(@, name, self.next_id),
                       !.current_tab = Len(self.tabs),
                       !.res = << "Ok", self.next_id >> ]

create_tab(self, name) ==
    IF contains_key(self.tab_map, name)
    THEN [ self EXCEPT !.res = << "TabExists", name >> ]
    ELSE [ self EXCEPT !.next_id = @ + 1,
                       !.tabs = Append(@, [ id |-> self.next_id, name |-> name ]),
                       !.tab_map = map_insert(@, name, self.next_id),
                       !.res = << "Ok", self.next_id >> ]

\* Mutant of switch_to_next_tab: the index is not wrapped.
switch_to_next_tab_no_wrap(self) ==
    IF self.tabs = <<>> THEN [ self EXCEPT !.res = << "TabError" >> ]
    ELSE [ self EXCEPT !.current_tab = self.current_tab + 1,
                       !.res = << "Ok" >> ]

switch_to_next_tab(self) ==
    IF self.tabs = <<>> THEN [ self EXCEPT !.res = << "TabError" >> ]
    ELSE [ self EXCEPT !.current_tab = (self.current_tab + 1) % Len(self.tabs),
                       !.res = << "Ok" >> ]

switch_to_prev_tab(self) ==
    IF self.tabs = <<>> THEN [ self EXCEPT !.res = << "TabError" >> ]
    ELSE [ self EXCEPT !.current_tab = IF self.current_tab = 0
                                       THEN Len(self.tabs) - 1
                                       ELSE self.current_tab - 1,
                       !.res = << "Ok" >> ]

switch_to_tab(self, idx) ==
    IF idx < Len(self.tabs)
    THEN [ self EXCEPT !.current_tab = idx, !.res = << "Ok" >> ]
    ELSE [ self EXCEPT !.res = << "TabNotFound", idx >> ]

(***************************************************************************)
(* FileTree (filetree.rs).  The directory under the root is a fixed layout *)
(* of entries, any part of which may exist.  A path is the entry's index   *)
(* in Layout, 0 is the root; the names are in alphabetical order.          *)
(***************************************************************************)
MaxNames == 5
Root == 0
Layout ==
    << [ name |-> "a", parent |-> Root, is_dir |-> TRUE ],
       [ name |-> "b", parent |-> 1, is_dir |-> TRUE ],
       [ name |-> "c", parent |-> 2, is_dir |-> FALSE ],
       [ name |-> "d", parent |-> 1, is_dir |-> FALSE ],
       [ name |-> "e", parent |-> Root, is_dir |-> FALSE ],
       [ name |-> "f", parent |-> Root, is_dir |-> TRUE ],
       [ name |-> "g", parent |-> 6, is_dir |-> FALSE ] >>
Names == 1..MaxNames

\* Vec::sort_by(|a, b| a.name.cmp(&b.name)) of the entries of one directory.
RECURSIVE sort_by_name(_)
sort_by_name(S) ==
    IF S = {} THEN <<>>
    ELSE LET m == CHOOSE x \in S : \A y \in S : x <= y
         IN  << m >> \o sort_by_name(S \ { m })

FileTreeEntry(path, level) ==
    [ name |-> Layout[path].name, path |-> path, is_dir |-> Layout[path].is_dir,
      is_expanded |-> FALSE, level |-> level ]

\* fs::read_dir(dir) succeeds when dir is an existing directory.
read_dir_ok(files, dir) == dir = Root \/ (dir \in files /\ Layout[dir].is_dir)

\* load_directory_entries: the directories of dir in alphabetical order and
\* then its files in alphabetical order, all at the given level.
load_directory_entries(files, dir, level) ==
    LET found == { n \in files : Layout[n].parent = dir }
        dirs == sort_by_name({ n \in found : Layout[n].is_dir })
        regular == sort_by_name({ n \in found : ~Layout[n].is_dir })
        all == dirs \o regular
    IN  [ i \in 1..Len(all) |-> FileTreeEntry(all[i], level) ]

\* load_entries appends what load_directory_entries collects.
load_entries(self, files, dir, level) ==
    IF read_dir_ok(files, dir)
    THEN [ self EXCEPT !.entries = @ \o load_directory_entries(files, dir, level),
                       !.res = "Ok" ]
    ELSE [ self EXCEPT !.res = "Err" ]

\* refresh: the entries are cleared and the root is listed again; the
\* cursor is not assigned.
refresh(self, files) ==
    load_entries([ self EXCEPT !.entries = <<>> ], files, Root, 0)

FileTree_new(files) ==
    refresh([ entries |-> <<>>, cursor |-> 0, visible |-> FALSE, res |-> "Ok" ], files)

toggle_visible(self) == [ self EXCEPT !.visible = ~@ ]

move_cursor_up(self) ==
    IF self.entries # <<>> /\ self.cursor > 0
    THEN [ self EXCEPT !.cursor = @ - 1 ] ELSE self

move_cursor_down(self) ==
    IF self.entries # <<>> /\ self.cursor < Len(self.entries) - 1
    THEN [ self EXCEPT !.cursor = @ + 1 ] ELSE self

\* move_to_parent: walking back from the cursor, the first entry one level
\* up becomes the cursor; without one the cursor stays.
move_to_parent(self) ==
    IF self.cursor < Len(self.entries)
    THEN LET level == self.entries[self.cursor + 1].level
             above == { i \in 0..(self.cursor - 1) :
                           self.entries[i + 1].level = level - 1 }
         IN  IF level = 0 \/ above = {} THEN [ self EXCEPT !.res = "Ok" ]
             ELSE [ self EXCEPT !.cursor = CHOOSE i \in above : \A j \in above : j <= i,
                                !.res = "Ok" ]
    ELSE [ self EXCEPT !.res = "Ok" ]

\* The entries after position i (0-based) that toggle_expand removes when it
\* collapses entry i: those deeper than level, up to the first that is not.
RECURSIVE children_end(_, _, _)
children_end(entries, i, level) ==
    IF i + 1 < Len(entries) /\ entries[i + 2].level > level
    THEN children_end(entries, i + 1, level)
    ELSE i

toggle_expand(self, files) ==
    IF self.entries = <<>> \/ self.cursor >= Len(self.entries)
    THEN [ self EXCEPT !.res = "Ok" ]
    ELSE LET cur == self.entries[self.cursor + 1]
             t == [ self EXCEPT !.entries[self.cursor + 1].is_expanded = ~@ ]
         IN  IF ~cur.is_dir THEN [ self EXCEPT !.res = "Ok" ]
             ELSE IF ~cur.is_expanded
             THEN IF read_dir_ok(files, cur.path)
                  THEN [ t EXCEPT !.entries =
                             SubSeq(@, 1, self.cursor + 1)
                               \o load_directory_entries(files, cur.path, cur.level + 1)
                               \o SubSeq(@, self.cursor + 2, Len(@)),
                                  !.res = "Ok" ]
                  ELSE [ t EXCEPT !.res = "Err" ]
             ELSE LET last == children_end(self.entries, self.cursor, cur.level)
                  IN  [ t EXCEPT !.entries =
                            SubSeq(@, 1, self.cursor + 1) \o SubSeq(@, last + 2, Len(@)),
                                 !.res = "Ok" ]

\* get_selected_path: path is <<>> for None and << p >> for Some(p); the
\* index self.entries[self.cursor] panics when the cursor is past the end.
get_selected_path(self) ==
    IF self.entries = <<>> THEN [ panics |-> FALSE, path |-> <<>> ]
    ELSE IF self.cursor < Len(self.entries)
    THEN [ panics |-> FALSE, path |-> << self.entries[self.cursor + 1].path >> ]
    ELSE [ panics |-> TRUE, path |-> <<>> ]

(***************************************************************************)
(* Shell::new and spawn_system_shell.  spawn_system_shell stores the child *)
(* and the receiver and starts both readers; it never moves the child's    *)
(* stdin out of the Child into child_stdin: child_stdin stays None and the *)
(* write end of the pipe stays inside the Child value.                     *)
(***************************************************************************)
\* Mutant of Shell_new: a failed spawn leaves running at its initial true.
Shell_new_running(spawned) ==
    [ lines |-> << RvimLine("RVim Interactive Shell"),
                   RvimLine("Spawning system shell..."),
                   IF spawned
                   THEN RvimLine("System shell spawned. Type 'exit' in the shell to close it.")
                   ELSE RvimLine("Error spawning shell"),
                   RvimLine("") >>,
      input_line |-> <<>>,
      cursor_pos |-> 0,
      running |-> TRUE,
      command_history |-> <<>>,
      history_position |-> 0,
      child |-> IF spawned THEN "Some" ELSE "None",
      child_stdin |-> "None",
      output_receiver |-> IF spawned THEN "Some" ELSE "None",
      reader_thread_handles |-> IF spawned THEN <<"stdout", "stderr">> ELSE <<>> ]

Shell_new(spawned) ==
    [ lines |-> << RvimLine("RVim Interactive Shell"),
                   RvimLine("Spawning system shell..."),
                   IF spawned
                   THEN RvimLine("System shell spawned. Type 'exit' in the shell to close it.")
                   ELSE RvimLine("Error spawning shell"),
                   RvimLine("") >>,
      input_line |-> <<>>,
      cursor_pos |-> 0,
      running |-> spawned,
      command_history |-> <<>>,
      history_position |-> 0,
      child |-> IF spawned THEN "Some" ELSE "None",
      child_stdin |-> "None",
      output_receiver |-> IF spawned THEN "Some" ELSE "None",
      reader_thread_handles |-> IF spawned THEN <<"stdout", "stderr">> ELSE <<>> ]

\* call.result: "pending" while execute_command sleeps, "Ok" or
\* "ShellInputError" once it has returned, "none" when it never returns.
NoCall == [input |-> <<>>, result |-> "no call"]

\* What surrounds a Shell value that has just been constructed: the child
\* and the reader threads when the spawn succeeded, and the editor.
SessionEnv(spawned) ==
    /\ proc = IF spawned THEN "alive" ELSE "none"
    /\ chan = <<>>
    /\ reader = [s \in Streams |-> IF spawned THEN "reading" ELSE "none"]
    /\ consumed = [s \in Streams |-> 0]
    /\ stdin_pipe = IF spawned THEN "open" ELSE "none"
    /\ stdin_data = <<>>
    /\ pc = "idle"
    /\ call = NoCall
    /\ calls = 0
    /\ dropLog = <<>>
    /\ todo = <<>>
    /\ clone_live = FALSE
    /\ ed = Editor_new

\* The shell session and the editor as constructed.
SessionInit ==
    \E spawned \in BOOLEAN :
        /\ shell = Shell_new(spawned)
        /\ SessionEnv(spawned)

Init ==
    /\ SessionInit
    /\ buf = DocBuffer_new("editor")
    /\ disk = <<>>
    /\ tm = TabManager_new
    /\ fs = Names
    /\ ft = FileTree_new(Names)

RECURSIVE Reverse(_)
Reverse(s) == IF s = <<>> THEN <<>> ELSE Reverse(Tail(s)) \o <<Head(s)>>

\* Mutant of drain: each received line is inserted at the front of the buffer.
drain_insert_front(ls, q) == Reverse(LinesOf(q)) \o ls

\* Mutant of drain: one try_recv instead of a loop, the rest is discarded.
drain_first_only(ls, q) ==
    IF LinesOf(q) = <<>> THEN ls ELSE Append(ls, Head(LinesOf(q)))

\* The try_recv loop of poll_output: every Line received is pushed onto the
\* line buffer, a Terminated marker is only logged.
drain(ls, q) == ls \o LinesOf(q)

\* Mutant of poll_output: the Disconnected arm leaves running as it is.
poll_output_ignore_disconnect(self, q, senders, exited) ==
    LET hasRx == self.output_receiver = "Some"
        s1 == IF hasRx THEN [self EXCEPT !.lines = drain(@, q)] ELSE self
    IN  IF hasRx /\ senders = 0
        THEN \* Err(TryRecvError::Disconnected): running = false, then relock
             [self |-> s1,
              drained |-> TRUE, waited |-> FALSE, returns |-> FALSE]
        ELSE IF ~s1.running
        THEN [self |-> s1, drained |-> hasRx, waited |-> FALSE, returns |-> TRUE]
        ELSE IF s1.child = "Some"
        THEN IF exited
             THEN \* Ok(Some(status)): running = false, then relock
                  [self |-> [s1 EXCEPT !.running = FALSE],
                   drained |-> hasRx, waited |-> TRUE, returns |-> FALSE]
             ELSE \* Ok(None)
                  [self |-> s1, drained |-> hasRx, waited |-> FALSE, returns |-> TRUE]
        ELSE IF s1.output_receiver = "None"
        THEN [self |-> [s1 EXCEPT !.running = FALSE],
              drained |-> hasRx, waited |-> FALSE, returns |-> TRUE]
        ELSE [self |-> s1, drained |-> hasRx, waited |-> FALSE, returns |-> TRUE]

(***************************************************************************)
(* Shell::poll_output, as one non-blocking pass.                           *)
(*   q       the items in the channel when the call drains it              *)
(*   senders the number of live Sender handles (reader threads not done)   *)
(*   exited  whether the child process has exited (what try_wait reports)  *)
(* The result says what the call did and whether it returns: the           *)
(* Disconnected arm and both releasing arms of the try_wait match lock a   *)
(* mutex whose guard the same thread still holds (rx_guard, and the guard  *)
(* temporary of the `if let` scrutinee); std::sync::Mutex::lock does not   *)
(* return in that case.                                                    *)
(***************************************************************************)
poll_output(self, q, senders, exited) ==
    LET hasRx == self.output_receiver = "Some"
        s1 == IF hasRx THEN [self EXCEPT !.lines = drain(@, q)] ELSE self
    IN  IF hasRx /\ senders = 0
        THEN \* Err(TryRecvError::Disconnected): running = false, then relock
             [self |-> [s1 EXCEPT !.running = FALSE],
              drained |-> TRUE, waited |-> FALSE, returns |-> FALSE]
        ELSE IF ~s1.running
        THEN [self |-> s1, drained |-> hasRx, waited |-> FALSE, returns |-> TRUE]
        ELSE IF s1.child = "Some"
        THEN IF exited
             THEN \* Ok(Some(status)): running = false, then relock
                  [self |-> [s1 EXCEPT !.running = FALSE],
                   drained |-> hasRx, waited |-> TRUE, returns |-> FALSE]
             ELSE \* Ok(None)
                  [self |-> s1, drained |-> hasRx, waited |-> FALSE, returns |-> TRUE]
        ELSE IF s1.output_receiver = "None"
        THEN [self |-> [s1 EXCEPT !.running = FALSE],
              drained |-> hasRx, waited |-> FALSE, returns |-> TRUE]
        ELSE [self |-> s1, drained |-> hasRx, waited |-> FALSE, returns |-> TRUE]

\* What locking a std::sync::Mutex the thread already holds may do: the call
\* never returns; it deadlocks or panics.
RelockOutcomes == { "deadlock", "panic" }

Senders == Cardinality({ s \in Streams : reader[s] = "reading" })
Exited == proc \in { "exited", "reaped" }

\* The environment's part of one poll_output pass: the channel is emptied
\* when there is a receiver, the child is reaped when try_wait found it dead.
Polled(r) ==
    /\ chan' = IF r.drained THEN <<>> ELSE chan
    /\ proc' = IF r.waited THEN "reaped" ELSE proc

(***************************************************************************)
(* The foreground thread's calls.                                          *)
(***************************************************************************)
PollOutput ==
    /\ pc = "idle"
    /\ LET r == poll_output(shell, chan, Senders, Exited)
       IN  /\ shell' = r.self
           /\ Polled(r)
           /\ \E o \in RelockOutcomes :
                  pc' = IF r.returns THEN "idle" ELSE o
           /\ call' = NoCall
    /\ UNCHANGED <<buf, disk, tm, ft, fs, clone_live, ed, reader, consumed, stdin_pipe, stdin_data, calls, dropLog, todo>>

\* writeln!(stdin, "{}", line) followed by flush, when both succeed.
WriteLine(data, line) == Append(data, line)

\* Mutant of execute_command: a line that cannot be written marks the
\* session as running.
execute_command_revive(self, data, wr) ==
    IF trim(self.input_line) = ExitText
    THEN [self |-> [self EXCEPT !.running = FALSE, !.input_line = <<>>,
                                !.cursor_pos = 0],
          data |-> IF self.child_stdin = "Some" /\ wr
                   THEN WriteLine(data, ExitText) ELSE data,
          result |-> "Ok", next |-> "idle"]
    ELSE IF self.child_stdin = "Some"
    THEN LET h == IF self.input_line # <<>> /\ trim(self.input_line) # <<>>
                  THEN [self EXCEPT
                            !.command_history = Append(@, self.input_line),
                            !.history_position = Len(self.command_history) + 1]
                  ELSE self
         IN  IF wr
             THEN [self |-> [h EXCEPT !.input_line = <<>>, !.cursor_pos = 0],
                   data |-> WriteLine(data, self.input_line),
                   result |-> "pending", next |-> "sleep"]
             ELSE \* `?` returns the error before the input line is cleared
                  [self |-> h, data |-> data,
                   result |-> "ShellInputError", next |-> "idle"]
    ELSE [self |-> [self EXCEPT
                        !.lines = Append(@, RvimLine("Shell not running or stdin unavailable.")),
                        !.running = TRUE,
                        !.input_line = <<>>, !.cursor_pos = 0],
          data |-> data, result |-> "pending", next |-> "sleep"]

(***************************************************************************)
(* Shell::execute_command after its first poll_output has returned, up to  *)
(* the thread::sleep (or an early return).  `wr` is whether a write to the *)
(* child's stdin succeeds.  next is "idle" when the call has returned and  *)
(* "sleep" when it goes on to sleep and poll again.                        *)
(***************************************************************************)
execute_command(self, data, wr) ==
    IF trim(self.input_line) = ExitText
    THEN [self |-> [self EXCEPT !.running = FALSE, !.input_line = <<>>,
                                !.cursor_pos = 0],
          data |-> IF self.child_stdin = "Some" /\ wr
                   THEN WriteLine(data, ExitText) ELSE data,
          result |-> "Ok", next |-> "idle"]
    ELSE IF self.child_stdin = "Some"
    THEN LET h == IF self.input_line # <<>> /\ trim(self.input_line) # <<>>
                  THEN [self EXCEPT
                            !.command_history = Append(@, self.input_line),
                            !.history_position = Len(self.command_history) + 1]
                  ELSE self
         IN  IF wr
             THEN [self |-> [h EXCEPT !.input_line = <<>>, !.cursor_pos = 0],
                   data |-> WriteLine(data, self.input_line),
                   result |-> "pending", next |-> "sleep"]
             ELSE \* `?` returns the error before the input line is cleared
                  [self |-> h, data |-> data,
                   result |-> "ShellInputError", next |-> "idle"]
    ELSE [self |-> [self EXCEPT
                        !.lines = Append(@, RvimLine("Shell not running or stdin unavailable.")),
                        !.running = FALSE,
                        !.input_line = <<>>, !.cursor_pos = 0],
          data |-> data, result |-> "pending", next |-> "sleep"]

ExecuteCommand ==
    /\ pc = "idle"
    /\ calls < MaxCommands
    /\ calls' = calls + 1
    /\ LET r == poll_output(shell, chan, Senders, Exited)
       IN  /\ Polled(r)
           /\ IF r.returns
              THEN \E wr \in BOOLEAN :
                     LET e == execute_command(r.self, stdin_data, wr)
                     IN  /\ shell' = e.self
                         /\ stdin_data' = e.data
                         /\ pc' = e.next
                         /\ call' = [input |-> shell.input_line,
                                     result |-> e.result]
              ELSE /\ shell' = r.self
                   /\ stdin_data' = stdin_data
                   /\ \E o \in RelockOutcomes : pc' = o
                   /\ call' = [input |-> shell.input_line, result |-> "none"]
    /\ UNCHANGED <<buf, disk, tm, ft, fs, clone_live, ed, reader, consumed, stdin_pipe, dropLog, todo>>

\* execute_command after the sleep: the second poll_output, then Ok(()).
ExecuteCommandWake ==
    /\ pc = "sleep"
    /\ LET r == poll_output(shell, chan, Senders, Exited)
       IN  /\ shell' = r.self
           /\ Polled(r)
           /\ \E o \in RelockOutcomes :
                  pc' = IF r.returns THEN "idle" ELSE o
           /\ call' = [call EXCEPT !.result = IF r.returns THEN "Ok" ELSE "none"]
    /\ UNCHANGED <<buf, disk, tm, ft, fs, clone_live, ed, reader, consumed, stdin_pipe, stdin_data, calls, dropLog, todo>>

\* Shell::input_char
input_char(self, c) ==
    [self EXCEPT
        !.input_line = IF self.cursor_pos = Len(self.input_line)
                       THEN Append(@, c)
                       ELSE SubSeq(@, 1, self.cursor_pos) \o <<c>>
                            \o SubSeq(@, self.cursor_pos + 1, Len(@)),
        !.cursor_pos = @ + 1]

\* The user types the line l: input_char for each of its characters.
RECURSIVE type_line(_, _)
type_line(self, l) ==
    IF l = <<>> THEN self ELSE type_line(input_char(self, Head(l)), Tail(l))

TypeLine ==
    /\ pc = "idle"
    /\ shell.input_line = <<>>
    /\ \E l \in TypedLines : shell' = type_line(shell, l)
    /\ call' = NoCall
    /\ UNCHANGED <<buf, disk, tm, ft, fs, clone_live, ed, proc, chan, reader, consumed, stdin_pipe, stdin_data, pc, calls, dropLog, todo>>

(***************************************************************************)
(* The reader threads started by spawn_system_shell.                       *)
(***************************************************************************)
\* Sender::send on the unbounded channel: it fails only without a receiver.
send(q, item, rx) == IF rx = "Some" THEN Append(q, item) ELSE q

\* What a reader sends when its loop has ended: only the stdout reader
\* sends the Terminated marker.
send_terminated(q, s, rx) == IF s = "stdout" THEN send(q, Terminated, rx) ELSE q

\* reader.lines() yields Ok(l), the next line the live child writes to the
\* stream: the line is sent; a failed send ends the loop.
ReaderLine(s) ==
    /\ reader[s] = "reading"
    /\ proc = "alive"
    /\ consumed["stdout"] + consumed["stderr"] < MaxOut
    /\ consumed' = [consumed EXCEPT ![s] = @ + 1]
    /\ IF shell.output_receiver = "Some" /\ pc # "dropped"
       THEN /\ chan' = send(chan, OutLine(StreamLine(s, consumed[s] + 1)),
                            shell.output_receiver)
            /\ reader' = reader
       ELSE /\ chan' = send_terminated(chan, s, "None")
            /\ reader' = [reader EXCEPT ![s] = "done"]
    /\ UNCHANGED <<buf, disk, tm, ft, fs, clone_live, ed, shell, proc, stdin_pipe, stdin_data, pc, call, calls, dropLog,
                   todo>>

\* reader.lines() ends: the child, which holds the only write end of the
\* pipe, is dead.
ReaderEof(s) ==
    /\ reader[s] = "reading"
    /\ proc \in { "exited", "reaped" }
    /\ chan' = send_terminated(chan, s, shell.output_receiver)
    /\ reader' = [reader EXCEPT ![s] = "done"]
    /\ UNCHANGED <<buf, disk, tm, ft, fs, clone_live, ed, shell, proc, consumed, stdin_pipe, stdin_data, pc, call, calls, dropLog,
                   todo>>

\* reader.lines() yields Err (the child writes a line that is not UTF-8):
\* the loop breaks and nothing more is forwarded.
ReaderError(s) ==
    /\ reader[s] = "reading"
    /\ proc = "alive"
    /\ chan' = send_terminated(chan, s, shell.output_receiver)
    /\ reader' = [reader EXCEPT ![s] = "done"]
    /\ UNCHANGED <<buf, disk, tm, ft, fs, clone_live, ed, shell, proc, consumed, stdin_pipe, stdin_data, pc, call, calls, dropLog,
                   todo>>

(***************************************************************************)
(* The child process exits on its own (or is killed from outside).         *)
(***************************************************************************)
ChildExit ==
    /\ proc = "alive"
    /\ proc' = "exited"
    /\ UNCHANGED <<buf, disk, tm, ft, fs, clone_live, ed, shell, chan, reader, consumed, stdin_pipe, stdin_data, pc, call, calls,
                   dropLog, todo>>

(***************************************************************************)
(* impl Drop for Shell.  The foreground thread executes the destructor's   *)
(* statements one after the other; child.wait() and handle.join() block.   *)
(***************************************************************************)
\* The statements of drop, in program order: the block guarded by
\* `if let Some(mut child) = ...take()`, at whose end the taken Child value
\* goes out of scope, then the join loop.
drop_body(hasChild) ==
    IF hasChild THEN <<"drop_stdin", "try_wait", "drop_child", "join">>
    ELSE <<"join">>

\* Mutant of try_wait_arm: a child that is still running is left alone.
try_wait_arm_no_kill(alive) == <<>>

\* The arms of `match child.try_wait()`: Ok(None) kills and waits.
try_wait_arm(alive) == IF alive THEN <<"kill", "wait">> ELSE <<>>

\* Closing the write end of the child's stdin pipe, if it is open.
close_stdin(d) ==
    IF d.pipe = "open"
    THEN [d EXCEPT !.pipe = "closed", !.log = Append(@, "stdin closed")]
    ELSE d

\* Executes the statements `stmts` against d = [shell, proc, pipe, log] as
\* far as they do not block, given the reader threads' states rd; todo is
\* what is left, starting with the statement that blocks.
RECURSIVE drop_run(_, _, _)
drop_run(stmts, d, rd) ==
    IF stmts = <<>> THEN [d EXCEPT !.todo = <<>>]
    ELSE LET rest == Tail(stmts)
             hs == d.shell.reader_thread_handles
         IN CASE Head(stmts) = "drop_stdin" ->
                   \* drop(self.child_stdin.lock().unwrap().take()): closes
                   \* the pipe when child_stdin holds its write end
                   drop_run(rest,
                            [(IF d.shell.child_stdin = "Some" THEN close_stdin(d) ELSE d)
                                EXCEPT !.shell.child_stdin = "None"], rd)
              [] Head(stmts) = "try_wait" ->
                   \* child.try_wait() reaps a child that has exited
                   drop_run(try_wait_arm(d.proc = "alive") \o rest,
                            [d EXCEPT !.proc = IF @ = "exited" THEN "reaped" ELSE @,
                                      !.log = Append(@, IF d.proc = "alive"
                                                        THEN "try_wait Ok(None)"
                                                        ELSE "try_wait Ok(Some)")],
                            rd)
              [] Head(stmts) = "kill" ->
                   \* child.kill(): SIGKILL to the editor's own, unreaped child
                   drop_run(rest, [d EXCEPT !.proc = "exited",
                                            !.log = Append(@, "kill")], rd)
              [] Head(stmts) = "wait" ->
                   \* child.wait() drops the stdin the Child still holds,
                   \* then blocks until the child has exited
                   IF d.proc = "exited"
                   THEN drop_run(rest, [close_stdin(d) EXCEPT
                                            !.proc = "reaped",
                                            !.log = Append(@, "wait")], rd)
                   ELSE [close_stdin(d) EXCEPT !.todo = stmts]
              [] Head(stmts) = "drop_child" ->
                   \* the Child value goes out of scope, with the stdin it holds
                   drop_run(rest, close_stdin(d), rd)
              [] Head(stmts) = "join" ->
                   \* while let Some(handle) = ...pop() { handle.join() }
                   IF hs = <<>> THEN drop_run(rest, d, rd)
                   ELSE IF rd[hs[Len(hs)]] = "done"
                   THEN drop_run(stmts,
                            [d EXCEPT !.shell.reader_thread_handles =
                                           SubSeq(hs, 1, Len(hs) - 1),
                                      !.log = Append(@, "join " \o hs[Len(hs)])],
                            rd)
                   ELSE [d EXCEPT !.todo = stmts]

Dropping(stmts, sh) ==
    LET d == drop_run(stmts, [shell |-> sh, proc |-> proc, pipe |-> stdin_pipe,
                              log |-> dropLog, todo |-> stmts], reader)
    IN  /\ shell' = d.shell
        /\ proc' = d.proc
        /\ stdin_pipe' = d.pipe
        /\ dropLog' = d.log
        /\ todo' = d.todo
        /\ pc' = IF d.todo = <<>> THEN "dropped" ELSE "drop"

\* The Shell value is dropped: the destructor runs up to its first
\* statement that blocks.
Drop ==
    /\ pc = "idle"
    /\ Dropping(drop_body(shell.child = "Some"), [shell EXCEPT !.child = "None"])
    /\ call' = NoCall
    /\ UNCHANGED <<buf, disk, tm, ft, fs, clone_live, ed, chan, reader, consumed, stdin_data, calls>>

\* The statement the destructor was blocked in returns.
DropResume ==
    /\ pc = "drop"
    /\ Dropping(todo, shell)
    /\ <<shell, proc, dropLog, todo>>' # <<shell, proc, dropLog, todo>>
    /\ UNCHANGED <<buf, disk, tm, ft, fs, clone_live, ed, chan, reader, consumed, stdin_data, call, calls>>

Next ==
    \/ PollOutput
    \/ ExecuteCommand
    \/ ExecuteCommandWake
    \/ TypeLine
    \/ \E s \in Streams : ReaderLine(s)
    \/ \E s \in Streams : ReaderEof(s)
    \/ \E s \in Streams : ReaderError(s)
    \/ ChildExit
    \/ Drop
    \/ DropResume

Spec == Init /\ [][Next]_vars

\* The destructor's thread and the reader threads are scheduled.
FairSpec ==
    /\ Spec
    /\ WF_vars(DropResume)
    /\ \A s \in Streams : WF_vars(ReaderLine(s)) /\ WF_vars(ReaderEof(s))

(***************************************************************************)
(* Window::split of src/cli/window.rs.  The result is always Ok; the       *)
(* parent is borrowed immutably.                                           *)
(***************************************************************************)
\* Mutant of Window_split: both halves get floor(size / 2).
Window_split_even(self, split_type) ==
    IF split_type = "Horizontal"
    THEN LET top_height == self.height \div 2
             top == Window_new(self.x, self.y, self.width, top_height)
             bottom == [ Window_new(self.x, self.y + top_height, self.width, top_height)
                         EXCEPT !.file_path = self.file_path ]
         IN  [ tag |-> "Ok", first |-> top, second |-> bottom ]
    ELSE LET left_width == self.width \div 2
             left == Window_new(self.x, self.y, left_width, self.height)
             right == [ Window_new(self.x + left_width, self.y, left_width, self.height)
                        EXCEPT !.file_path = self.file_path ]
         IN  [ tag |-> "Ok", first |-> left, second |-> right ]

Window_split(self, split_type) ==
    IF split_type = "Horizontal"
    THEN LET top_height == self.height \div 2
             bottom_height == self.height - top_height
             top == Window_new(self.x, self.y, self.width, top_height)
             bottom == [ Window_new(self.x, self.y + top_height, self.width, bottom_height)
                         EXCEPT !.file_path = self.file_path ]
         IN  [ tag |-> "Ok", first |-> top, second |-> bottom ]
    ELSE LET left_width == self.width \div 2
             right_width == self.width - left_width
             left == Window_new(self.x, self.y, left_width, self.height)
             right == [ Window_new(self.x + left_width, self.y, right_width, self.height)
                        EXCEPT !.file_path = self.file_path ]
         IN  [ tag |-> "Ok", first |-> left, second |-> right ]

(***************************************************************************)
(* The editor's window operations.  process_second_key calls cycle_window  *)
(* and close_window, and nothing under src/ defines them or calls          *)
(* Window::split: the three operations follow section 4.4 of the           *)
(* specification.  activate moves the active flag to one window.           *)
(***************************************************************************)
activate(ws, a) == [ j \in 1..Len(ws) |-> [ ws[j] EXCEPT !.is_active = (j = a + 1) ] ]

RemoveAt(s, i) == SubSeq(s, 1, i - 1) \o SubSeq(s, i + 1, Len(s))

\* split: the originating window is replaced by the two children and the
\* second child becomes active.
split_window(e, split_type) ==
    LET i  == e.active_window + 1
        r  == Window_split(e.windows[i], split_type)
        ws == SubSeq(e.windows, 1, i - 1) \o << r.first, r.second >>
                \o SubSeq(e.windows, i + 1, Len(e.windows))
    IN  [ e EXCEPT !.windows = activate(ws, i), !.active_window = i ]

\* cycle: the active index advances circularly.
cycle_window(e) ==
    LET a == (e.active_window + 1) % Len(e.windows)
    IN  [ e EXCEPT !.windows = activate(@, a), !.active_window = a ]

\* close: removes the active window unless it is the last one; the last
\* window with the last buffer is a request to quit.
close_window(e) ==
    IF Len(e.windows) > 1
    THEN LET ws == RemoveAt(e.windows, e.active_window + 1)
             a  == IF e.active_window >= Len(ws) THEN Len(ws) - 1 ELSE e.active_window
         IN  [ e EXCEPT !.windows = activate(ws, a), !.active_window = a ]
    ELSE IF Len(e.buffers) <= 1 THEN [ e EXCEPT !.quit = TRUE ]
    ELSE e

(***************************************************************************)
(* Editor::open_file, open_shell and close_current_buffer.  An operation   *)
(* that returns a Result yields the editor and "Ok" or "Err".              *)
(***************************************************************************)
Ret(e, res) == [ e |-> e, res |-> res ]

\* io: "Ok", "read fails" (Buffer::from_file) or "tree fails" (FileTree::new).
open_file(e, filename, io) ==
    IF io = "read fails" THEN Ret(e, "Err")
    ELSE LET e1 == [ e EXCEPT !.buffers[e.active_buffer + 1] = Buffer_from_file(filename) ]
         IN  IF io = "tree fails" THEN Ret(e1, "Err")
             ELSE Ret([ e1 EXCEPT !.tree_visible = FALSE,
                                  !.windows[e.active_window + 1].file_path = filename ],
                      "Ok")

\* Mutant of open_shell: the new buffer is pushed and the active index kept.
open_shell_keep_active(e, is_horizontal) ==
    Ret([ e EXCEPT !.buffers = Append(@, Buffer_from_shell(is_horizontal)),
                   !.previous_mode = e.mode,
                   !.mode = "Shell" ],
        "Ok")

open_shell(e, is_horizontal) ==
    LET bs == Append(e.buffers, Buffer_from_shell(is_horizontal))
    IN  Ret([ e EXCEPT !.buffers = bs,
                       !.active_buffer = Len(bs) - 1,
                       !.previous_mode = e.mode,
                       !.mode = "Shell" ],
            "Ok")

\* Mutant of close_current_buffer: the active index is left as it was.
close_current_buffer_no_adjust(e) ==
    IF Len(e.buffers) <= 1 THEN Ret(e, "Ok")
    ELSE Ret([ e EXCEPT !.buffers = RemoveAt(@, e.active_buffer + 1) ], "Ok")

close_current_buffer(e) ==
    IF Len(e.buffers) <= 1 THEN Ret(e, "Ok")
    ELSE LET bs == RemoveAt(e.buffers, e.active_buffer + 1)
         IN  Ret([ e EXCEPT !.buffers = bs,
                            !.active_buffer =
                                IF e.active_buffer >= Len(bs) THEN Len(bs) - 1
                                ELSE e.active_buffer ],
                 "Ok")

(***************************************************************************)
(* Key events.  A key is KeyCode::Esc, Enter, Backspace or Char(c),        *)
(* written as c.                                                           *)
(***************************************************************************)
CharKeys == { " ", ":", "i", "v", "h", "j", "l", "q", "e", "w", "x" }
Keys == CharKeys \cup { "Esc", "Enter", "Backspace" }
\* What FileTree::get_selected_path returns: nothing, a directory or a file.
Selections == { "None", "dir", "file" }
Files == { "f" }
\* The command lines the user types in the model.
TypedCommands == { <<"w">>, <<"q">>, <<"w", "q">>, <<"x">> }

\* Buffer::save and Document::save; io is whether fs::write succeeds.
Buffer_save(b, io) ==
    IF b.is_shell THEN "Err"
    ELSE IF b.filename = "None" THEN "Err"
    ELSE IF io THEN "Ok" ELSE "Err"

\* Mutant of process_second_key: the flag is cleared only in the arms of the
\* known leader commands.
process_second_key_keep_flag(e, key) ==
    IF key \in { "e", "v", "h", "w", "q", "x" }
    THEN Ret([ e EXCEPT !.waiting_for_second_key = FALSE ], "Ok")
    ELSE Ret(e, "Ok")

process_second_key(e, key) ==
    LET e1 == [ e EXCEPT !.waiting_for_second_key = FALSE ]
    IN  CASE key = "e" ->
                 IF ~e1.tree_visible
                 THEN Ret([ e1 EXCEPT !.tree_visible = TRUE,
                                      !.previous_mode = e1.mode,
                                      !.mode = "FileTree" ], "Ok")
                 ELSE Ret([ e1 EXCEPT !.tree_visible = FALSE,
                                      !.mode = e1.previous_mode ], "Ok")
          [] key = "v" -> open_shell(e1, FALSE)
          [] key = "h" -> open_shell(e1, TRUE)
          [] key = "w" -> Ret(cycle_window(e1), "Ok")
          [] key = "q" -> Ret(close_window(e1), "Ok")
          [] key = "x" -> close_current_buffer(e1)
          [] OTHER -> Ret(e1, "Ok")

\* h, j, k and l move the cursor, which the model leaves out.
process_normal_mode(e, key) ==
    CASE key = " " -> Ret([ e EXCEPT !.waiting_for_second_key = TRUE ], "Ok")
      [] key = "q" -> Ret([ e EXCEPT !.quit = TRUE ], "Ok")
      [] key = ":" -> Ret([ e EXCEPT !.mode = "Command", !.command_line = <<>> ], "Ok")
      [] key = "i" -> Ret([ e EXCEPT !.mode = "Insert" ], "Ok")
      [] key = "v" -> Ret([ e EXCEPT !.mode = "Visual" ], "Ok")
      [] OTHER -> Ret(e, "Ok")

\* Mutant of process_visual_mode: Escape is not handled.
process_visual_mode_no_esc(e, key) == Ret(e, "Ok")

process_visual_mode(e, key) ==
    IF key = "Esc" THEN Ret([ e EXCEPT !.mode = "Normal" ], "Ok") ELSE Ret(e, "Ok")

\* The editor's execute_command, called by process_command_mode and not
\* defined under src/: the command surface of section 6 of the specification
\* (w/write saves the active buffer, q/quit sets the quit flag, wq saves and
\* then quits, other text is rejected without side effects).
Cmd_w == { <<"w">>, <<"w", "r", "i", "t", "e">> }
Cmd_q == { <<"q">>, <<"q", "u", "i", "t">> }
Cmd_wq == { <<"w", "q">> }
editor_execute_command(e, io) ==
    LET saved == Buffer_save(e.buffers[e.active_buffer + 1], io)
    IN  CASE e.command_line \in Cmd_w -> Ret(e, saved)
          [] e.command_line \in Cmd_q -> Ret([ e EXCEPT !.quit = TRUE ], "Ok")
          [] e.command_line \in Cmd_wq ->
                 IF saved = "Ok" THEN Ret([ e EXCEPT !.quit = TRUE ], "Ok")
                 ELSE Ret(e, "Err")
          [] OTHER -> Ret(e, "Ok")

\* Mutant of process_command_mode: Enter leaves the editor in Command mode.
process_command_mode_stay(e, key, io) ==
    CASE key = "Esc" -> Ret([ e EXCEPT !.mode = "Normal" ], "Ok")
      [] key = "Enter" -> editor_execute_command(e, io)
      [] key = "Backspace" ->
             Ret([ e EXCEPT !.command_line =
                       IF @ = <<>> THEN @ ELSE SubSeq(@, 1, Len(@) - 1) ], "Ok")
      [] key \in CharKeys -> Ret([ e EXCEPT !.command_line = Append(@, key) ], "Ok")
      [] OTHER -> Ret(e, "Ok")

process_command_mode(e, key, io) ==
    CASE key = "Esc" -> Ret([ e EXCEPT !.mode = "Normal" ], "Ok")
      [] key = "Enter" ->
             LET r == editor_execute_command(e, io)
             IN  IF r.res = "Err" THEN r
                 ELSE Ret([ r.e EXCEPT !.mode = "Normal" ], "Ok")
      [] key = "Backspace" ->
             Ret([ e EXCEPT !.command_line =
                       IF @ = <<>> THEN @ ELSE SubSeq(@, 1, Len(@) - 1) ], "Ok")
      [] key \in CharKeys -> Ret([ e EXCEPT !.command_line = Append(@, key) ], "Ok")
      [] OTHER -> Ret(e, "Ok")

\* file_tree is Some from Editor::new on.  sel is the selected path, io is
\* whether the directory listing or the file read succeeds; j and k move
\* the tree's cursor, which the model leaves out.
\* Mutant of process_file_tree_mode: Escape leaves the mode and keeps the
\* tree on the screen.
process_file_tree_mode_keep_tree(e, key, sel, io) ==
    CASE key = "Esc" -> Ret([ e EXCEPT !.mode = e.previous_mode ], "Ok")
      [] key \in { "Enter", "l" } ->
             IF sel = "None" THEN Ret(e, "Ok")
             ELSE IF sel = "dir" THEN Ret(e, IF io THEN "Ok" ELSE "Err")
             ELSE IF ~io THEN Ret(e, "Err")
             ELSE Ret([ e EXCEPT !.buffers[e.active_buffer + 1] = Buffer_from_file("f"),
                                 !.tree_visible = ~@,
                                 !.mode = e.previous_mode ], "Ok")
      [] key = "h" -> Ret(e, IF sel = "dir" /\ ~io THEN "Err" ELSE "Ok")
      [] OTHER -> Ret(e, "Ok")

process_file_tree_mode(e, key, sel, io) ==
    CASE key = "Esc" ->
             Ret([ e EXCEPT !.tree_visible = ~@, !.mode = e.previous_mode ], "Ok")
      [] key \in { "Enter", "l" } ->
             IF sel = "None" THEN Ret(e, "Ok")
             ELSE IF sel = "dir" THEN Ret(e, IF io THEN "Ok" ELSE "Err")
             ELSE IF ~io THEN Ret(e, "Err")
             ELSE Ret([ e EXCEPT !.buffers[e.active_buffer + 1] = Buffer_from_file("f"),
                                 !.tree_visible = ~@,
                                 !.mode = e.previous_mode ], "Ok")
      [] key = "h" -> Ret(e, IF sel = "dir" /\ ~io THEN "Err" ELSE "Ok")
      [] OTHER -> Ret(e, "Ok")

\* process_insert_mode and process_shell_mode are called by process_keypress
\* and not defined under src/.  From the specification: Escape leaves Insert
\* mode for Normal and leaves the Shell overlay for previous_mode; the other
\* keys edit the document or the shell's input line, which the editor's
\* state here leaves out; Enter in the Shell overlay calls the active
\* shell's execute_command, which polls that shell.
process_insert_mode(e, key) ==
    IF key = "Esc" THEN Ret([ e EXCEPT !.mode = "Normal" ], "Ok") ELSE Ret(e, "Ok")

process_shell_mode(e, key) ==
    IF key = "Esc" THEN Ret([ e EXCEPT !.mode = e.previous_mode ], "Ok")
    ELSE IF key = "Enter" /\ e.buffers[e.active_buffer + 1].is_shell
    THEN Ret([ e EXCEPT !.polled = { e.active_buffer } ], "Ok")
    ELSE Ret(e, "Ok")

process_keypress(e, key, sel, io) ==
    CASE e.mode = "Normal" ->
             IF e.waiting_for_second_key THEN process_second_key(e, key)
             ELSE process_normal_mode(e, key)
      [] e.mode = "Insert" -> process_insert_mode(e, key)
      [] e.mode = "Visual" -> process_visual_mode(e, key)
      [] e.mode = "Command" -> process_command_mode(e, key, io)
      [] e.mode = "FileTree" -> process_file_tree_mode(e, key, sel, io)
      [] e.mode = "Shell" -> process_shell_mode(e, key)

\* One iteration of the loop of Editor::run: `self.process_keypress()?`
\* returns an Err to run's caller; otherwise the loop goes on while !quit.
\* refresh_screen draws the lines each shell already holds; neither it nor
\* the loop calls poll_output.
run_iteration(e, key, sel, io) ==
    LET r == process_keypress([ e EXCEPT !.polled = {} ], key, sel, io)
    IN  [ r.e EXCEPT !.run = IF r.res = "Err" THEN "Err"
                              ELSE IF r.e.quit THEN "Ok" ELSE "loop" ]

(***************************************************************************)
(* The editor's steps.  main opens the file named on the command line and  *)
(* then calls Editor::run; each iteration of the loop handles one key.     *)
(* The terminal itself (event::read, the redraw) does not fail here.       *)
(***************************************************************************)
ShellVars == <<shell, proc, chan, reader, consumed, stdin_pipe, stdin_data, pc,
               call, calls, dropLog, todo, clone_live>>
DocVars == <<buf, disk, tm, ft, fs>>

\* The editor as constructed; the Shell value of the session's variables is
\* one that spawned and is left as it is.
EditorInit == Init /\ shell.running

OpenFile ==
    /\ ed.run = "start"
    /\ \E filename \in Files, io \in { "Ok", "read fails", "tree fails" } :
          LET r == open_file(ed, filename, io)
          IN  ed' = [ r.e EXCEPT !.run = IF r.res = "Err" THEN "startup Err" ELSE "start" ]
    /\ UNCHANGED <<ShellVars, DocVars>>

Run ==
    /\ ed.run = "start"
    /\ ed' = [ ed EXCEPT !.run = "loop" ]
    /\ UNCHANGED <<ShellVars, DocVars>>

\* The keys the model presses in the state e: the command line is typed
\* towards one of TypedCommands, and a shell is opened while fewer than
\* MaxBuffers buffers are open.
Pressable(e) ==
    IF e.mode = "Command"
    THEN { k \in Keys : k \in CharKeys =>
               \E c \in TypedCommands : IsPrefix(Append(e.command_line, k), c) }
    ELSE IF e.mode = "Normal" /\ e.waiting_for_second_key /\ Len(e.buffers) >= MaxBuffers
    THEN Keys \ { "v", "h" }
    ELSE Keys

\* The environment of a key: the tree's selection matters in FileTree mode,
\* the outcome of file input and output in FileTree and Command mode.
SelectionsIn(e) == IF e.mode = "FileTree" THEN Selections ELSE { "None" }
IoIn(e) == IF e.mode \in { "FileTree", "Command" } THEN BOOLEAN ELSE { TRUE }

KeyPressIn(keys) ==
    /\ ed.run = "loop"
    /\ \E key \in Pressable(ed) \cap keys, sel \in SelectionsIn(ed), io \in IoIn(ed) :
          ed' = run_iteration(ed, key, sel, io)
    /\ UNCHANGED <<ShellVars, DocVars>>

KeyPress == KeyPressIn(Keys)

EditorNext ==
    \/ OpenFile
    \/ Run
    \/ KeyPress

\* The editor with its one initial window.
EditorSpec == EditorInit /\ [][EditorNext]_vars

\* The leader commands on windows and buffers, and Escape from the shell.
WindowKeys == { " ", "w", "q", "x", "v", "Esc" }

WindowKeyPress == KeyPressIn(WindowKeys)

SplitWindow ==
    /\ ed.run = "loop"
    /\ ed.splits < MaxSplits
    /\ \E split_type \in SplitTypes :
          ed' = [ split_window(ed, split_type) EXCEPT !.splits = @ + 1 ]
    /\ UNCHANGED <<ShellVars, DocVars>>

WindowNext ==
    \/ OpenFile
    \/ Run
    \/ WindowKeyPress
    \/ SplitWindow

\* The editor's windows under split, cycle and close.
WindowSpec == EditorInit /\ [][WindowNext]_vars

(***************************************************************************)
(* #[derive(Clone)] on Shell (and on the Buffer of buffer.rs that holds    *)
(* it).  The derived clone copies the plain fields and clones the four Arc *)
(* pointers: the new value refers to the same Mutex<Option<Child>>, stdin  *)
(* handle, receiver and reader-handle list as the value it was cloned      *)
(* from.  The clone stays live; `shell` is the value that is used and      *)
(* dropped.                                                                *)
(***************************************************************************)
Clone ==
    /\ pc = "idle"
    /\ ~clone_live
    /\ clone_live' = TRUE
    /\ UNCHANGED <<shell, proc, chan, reader, consumed, stdin_pipe, stdin_data, pc,
                   call, calls, dropLog, todo, ed, buf, disk, tm, ft, fs>>

ShareNext == Clone \/ Next

ShareSpec == Init /\ [][ShareNext]_vars

(***************************************************************************)
(* A Buffer and its Document under the calls of their public interface,    *)
(* with the one file "f" the Document is loaded from and saved to.  A call *)
(* that panicked ends the thread, and nothing is called after it.          *)
(***************************************************************************)
OtherVars == <<ShellVars, ed, tm, ft, fs>>

DocInit ==
    /\ SessionInit
    /\ shell.running
    /\ \E impl \in Impls : buf = DocBuffer_new(impl)
    /\ disk \in FileContents
    /\ tm = TabManager_new
    /\ fs = Names
    /\ ft = FileTree_new(Names)

BufferFromFile ==
    /\ ~buf.document.panicked
    /\ buf' = DocBuffer_from_file(buf.document.impl, "f", disk)
    /\ UNCHANGED <<disk, OtherVars>>

BufferFromShell ==
    /\ ~buf.document.panicked
    /\ buf' = DocBuffer_from_shell(buf.document.impl)
    /\ UNCHANGED <<disk, OtherVars>>

\* The rows and columns the calls are made with: every row of the Document
\* and the one past its last, every column of the row's line and the two
\* past its last.
Rows(d) == 0..Len(d.lines)
Cols(d, row) == 0..(IF row < Len(d.lines) THEN Len(d.lines[row + 1]) + 1 ELSE 0)

InsertChar ==
    /\ ~buf.document.panicked
    /\ Len(join(buf.document.lines)) < MaxFile
    /\ \E row \in Rows(buf.document), c \in InsertChars :
       \E col \in Cols(buf.document, row) :
          buf' = [ buf EXCEPT !.document = insert_char(@, row, col, c),
                              !.res = "none" ]
    /\ UNCHANGED <<disk, OtherVars>>

DeleteChar ==
    /\ ~buf.document.panicked
    /\ \E row \in Rows(buf.document) :
       \E col \in Cols(buf.document, row) :
          LET r == delete_char(buf.document, row, col)
          IN  buf' = [ buf EXCEPT !.document = r.d,
                                  !.res = IF r.removed THEN "true" ELSE "false" ]
    /\ UNCHANGED <<disk, OtherVars>>

Save ==
    /\ ~buf.document.panicked
    /\ \E io \in BOOLEAN :
          LET s == DocBuffer_save(buf, disk, io)
          IN  buf' = s.b /\ disk' = s.disk
    /\ UNCHANGED OtherVars

DocNext ==
    \/ BufferFromFile
    \/ BufferFromShell
    \/ InsertChar
    \/ DeleteChar
    \/ Save

DocSpec == DocInit /\ [][DocNext]_vars

(***************************************************************************)
(* The TabManager under create_tab and the three switches.                 *)
(***************************************************************************)
TabInit == Init /\ shell.running

CreateTab ==
    /\ \E name \in TabNames :
          /\ Len(tm.tabs) < MaxTabs \/ contains_key(tm.tab_map, name)
          /\ tm' = create_tab(tm, name)
    /\ UNCHANGED <<ShellVars, ed, buf, disk, ft, fs>>

SwitchToNextTab ==
    /\ tm' = switch_to_next_tab(tm)
    /\ UNCHANGED <<ShellVars, ed, buf, disk, ft, fs>>

SwitchToPrevTab ==
    /\ tm' = switch_to_prev_tab(tm)
    /\ UNCHANGED <<ShellVars, ed, buf, disk, ft, fs>>

SwitchToTab ==
    /\ \E idx \in 0..MaxTabs : tm' = switch_to_tab(tm, idx)
    /\ UNCHANGED <<ShellVars, ed, buf, disk, ft, fs>>

TabNext ==
    \/ CreateTab
    \/ SwitchToNextTab
    \/ SwitchToPrevTab
    \/ SwitchToTab

TabSpec == TabInit /\ [][TabNext]_vars

(***************************************************************************)
(* The file tree on its own: the calls the editor makes on it in FileTree  *)
(* mode, the refresh that a file-system event brings, and the entries that *)
(* other programs create and remove under the root.                        *)
(***************************************************************************)
TreeVars == <<ShellVars, ed, buf, disk, tm>>
TreeInit == Init /\ shell.running

ToggleVisible ==
    /\ ft' = toggle_visible(ft)
    /\ UNCHANGED <<fs, TreeVars>>

MoveCursorUp ==
    /\ ft' = move_cursor_up(ft)
    /\ UNCHANGED <<fs, TreeVars>>

MoveCursorDown ==
    /\ ft' = move_cursor_down(ft)
    /\ UNCHANGED <<fs, TreeVars>>

MoveToParent ==
    /\ ft' = move_to_parent(ft)
    /\ UNCHANGED <<fs, TreeVars>>

ToggleExpand ==
    /\ ft' = toggle_expand(ft, fs)
    /\ UNCHANGED <<fs, TreeVars>>

\* handle_fs_event with a Create, Remove or Modify event.
Refresh ==
    /\ ft' = refresh(ft, fs)
    /\ UNCHANGED <<fs, TreeVars>>

CreateEntry ==
    /\ \E n \in Names \ fs :
          /\ read_dir_ok(fs, Layout[n].parent)
          /\ fs' = fs \cup { n }
    /\ UNCHANGED <<ft, TreeVars>>

\* A file or an empty directory is removed.
RemoveEntry ==
    /\ \E n \in fs :
          /\ \A m \in fs : Layout[m].parent # n
          /\ fs' = fs \ { n }
    /\ UNCHANGED <<ft, TreeVars>>

TreeNext ==
    \/ ToggleVisible
    \/ MoveCursorUp
    \/ MoveCursorDown
    \/ MoveToParent
    \/ ToggleExpand
    \/ Refresh
    \/ CreateEntry
    \/ RemoveEntry

TreeSpec == TreeInit /\ [][TreeNext]_vars

(***************************************************************************)
(* The shell session when the user also types `exit` with a space before   *)
(* or after it.                                                            *)
(***************************************************************************)
PaddedLines == { << " " >> \o ExitText, ExitText \o << " " >> }

TypePaddedLine ==
    /\ pc = "idle"
    /\ shell.input_line = <<>>
    /\ \E l \in PaddedLines : shell' = type_line(shell, l)
    /\ call' = NoCall
    /\ UNCHANGED <<buf, disk, tm, ft, fs, clone_live, ed, proc, chan, reader, consumed,
                   stdin_pipe, stdin_data, pc, calls, dropLog, todo>>

ExitNext == TypePaddedLine \/ Next

ExitSpec == Init /\ [][ExitNext]_vars

(***************************************************************************)
(* The input line and the history of a Shell.  command_history and         *)
(* history_position are public fields; the session starts with one of      *)
(* Histories recorded and the history cursor one past its end, where       *)
(* execute_command leaves it after a push.                                 *)
(***************************************************************************)
MaxInput == 2
InputChars == { "l", "s" }
Histories == { <<>>, << ExitText >>, << ExitText, << "l", "s" >> >> }

input_backspace(self) ==
    IF self.cursor_pos > 0
    THEN [self EXCEPT !.cursor_pos = @ - 1,
                      !.input_line = String_remove(@, self.cursor_pos - 1)]
    ELSE self

input_delete(self) ==
    IF self.cursor_pos < Len(self.input_line)
    THEN [self EXCEPT !.input_line = String_remove(@, self.cursor_pos)]
    ELSE self

move_cursor_left(self) ==
    IF self.cursor_pos > 0 THEN [self EXCEPT !.cursor_pos = @ - 1] ELSE self

\* Mutant of move_cursor_right: the cursor moves past the end of the line.
move_cursor_right_unbounded(self) == [self EXCEPT !.cursor_pos = @ + 1]

move_cursor_right(self) ==
    IF self.cursor_pos < Len(self.input_line)
    THEN [self EXCEPT !.cursor_pos = @ + 1]
    ELSE self

\* Mutant of history_up: the entry is taken and the history cursor is left
\* where it was.
history_up_keep_position(self) ==
    IF self.command_history # <<>> /\ self.history_position > 0
    THEN [self EXCEPT !.input_line = self.command_history[self.history_position],
                      !.cursor_pos = Len(self.command_history[self.history_position])]
    ELSE self

history_up(self) ==
    IF self.command_history # <<>> /\ self.history_position > 0
    THEN [self EXCEPT !.history_position = @ - 1,
                      !.input_line = self.command_history[self.history_position],
                      !.cursor_pos = Len(self.command_history[self.history_position])]
    ELSE self

\* Shell::history_down.  With an empty history the first condition is
\* false and the else-if evaluates `self.command_history.len() - 1` on
\* usize 0: a build with overflow checks panics there; a build without
\* them wraps to usize::MAX, which no history cursor equals.
history_down(self, overflow_checks) ==
    IF self.command_history # <<>>
       /\ self.history_position < Len(self.command_history) - 1
    THEN [self |-> [self EXCEPT
                       !.history_position = @ + 1,
                       !.input_line = self.command_history[self.history_position + 2],
                       !.cursor_pos = Len(self.command_history[self.history_position + 2])],
          panics |-> FALSE]
    ELSE IF self.command_history = <<>>
    THEN [self |-> self, panics |-> overflow_checks]
    ELSE IF self.history_position = Len(self.command_history) - 1
    THEN [self |-> [self EXCEPT !.history_position = Len(self.command_history),
                                !.input_line = <<>>,
                                !.cursor_pos = 0],
          panics |-> FALSE]
    ELSE [self |-> self, panics |-> FALSE]

InputInit ==
    \E spawned \in BOOLEAN, h \in Histories :
        /\ shell = [Shell_new(spawned) EXCEPT !.command_history = h,
                                              !.history_position = Len(h)]
        /\ SessionEnv(spawned)
        /\ buf = DocBuffer_new("editor")
        /\ disk = <<>>
        /\ tm = TabManager_new
        /\ fs = Names
        /\ ft = FileTree_new(Names)

\* The foreground thread calls the editing methods between its other calls.
InputChar ==
    /\ pc = "idle"
    /\ Len(shell.input_line) < MaxInput
    /\ \E c \in InputChars : shell' = input_char(shell, c)
    /\ call' = NoCall
    /\ UNCHANGED <<buf, disk, tm, ft, fs, clone_live, ed, proc, chan, reader, consumed,
                   stdin_pipe, stdin_data, pc, calls, dropLog, todo>>

InputBackspace ==
    /\ pc = "idle"
    /\ shell' = input_backspace(shell)
    /\ call' = NoCall
    /\ UNCHANGED <<buf, disk, tm, ft, fs, clone_live, ed, proc, chan, reader, consumed,
                   stdin_pipe, stdin_data, pc, calls, dropLog, todo>>

InputDelete ==
    /\ pc = "idle"
    /\ shell' = input_delete(shell)
    /\ call' = NoCall
    /\ UNCHANGED <<buf, disk, tm, ft, fs, clone_live, ed, proc, chan, reader, consumed,
                   stdin_pipe, stdin_data, pc, calls, dropLog, todo>>

MoveCursorLeft ==
    /\ pc = "idle"
    /\ shell' = move_cursor_left(shell)
    /\ call' = NoCall
    /\ UNCHANGED <<buf, disk, tm, ft, fs, clone_live, ed, proc, chan, reader, consumed,
                   stdin_pipe, stdin_data, pc, calls, dropLog, todo>>

MoveCursorRight ==
    /\ pc = "idle"
    /\ shell' = move_cursor_right(shell)
    /\ call' = NoCall
    /\ UNCHANGED <<buf, disk, tm, ft, fs, clone_live, ed, proc, chan, reader, consumed,
                   stdin_pipe, stdin_data, pc, calls, dropLog, todo>>

HistoryUp ==
    /\ pc = "idle"
    /\ shell' = history_up(shell)
    /\ call' = NoCall
    /\ UNCHANGED <<buf, disk, tm, ft, fs, clone_live, ed, proc, chan, reader, consumed,
                   stdin_pipe, stdin_data, pc, calls, dropLog, todo>>

HistoryDown ==
    /\ pc = "idle"
    /\ \E overflow_checks \in BOOLEAN :
          LET r == history_down(shell, overflow_checks)
          IN  /\ shell' = r.self
              /\ pc' = IF r.panics THEN "panic" ELSE "idle"
    /\ call' = NoCall
    /\ UNCHANGED <<buf, disk, tm, ft, fs, clone_live, ed, proc, chan, reader, consumed,
                   stdin_pipe, stdin_data, calls, dropLog, todo>>

InputNext ==
    \/ InputChar
    \/ InputBackspace
    \/ InputDelete
    \/ MoveCursorLeft
    \/ MoveCursorRight
    \/ HistoryUp
    \/ HistoryDown
    \/ ExecuteCommand
    \/ ExecuteCommandWake
    \/ PollOutput
    \/ ChildExit
    \/ \E s \in Streams : ReaderEof(s)

InputSpec == InputInit /\ [][InputNext]_vars

(***************************************************************************)
(* The session while it lives (no teardown), with its reader threads       *)
(* scheduled fairly.                                                       *)
(***************************************************************************)
ReaderNext ==
    \/ PollOutput
    \/ ExecuteCommand
    \/ ExecuteCommandWake
    \/ TypeLine
    \/ \E s \in Streams : ReaderLine(s)
    \/ \E s \in Streams : ReaderEof(s)
    \/ \E s \in Streams : ReaderError(s)
    \/ ChildExit

ReaderSpec ==
    /\ Init /\ [][ReaderNext]_vars
    /\ \A s \in Streams : WF_vars(ReaderLine(s)) /\ WF_vars(ReaderEof(s))

(***************************************************************************)
(* The claims.                                                             *)
(***************************************************************************)
Blocked == pc \in RelockOutcomes
IsExit(l) == l = ExitText
Returned == call.result \in { "Ok", "ShellInputError" }

\* C1: every call to Shell::poll_output returns without waiting, also the
\* call that finds the channel disconnected and the call that finds the
\* child exited.
C1_PollOutputReturns == ~Blocked

\* C2: after execute_command is called with the input line `exit`, running
\* is false, the input line is empty with cursor offset 0, and the call
\* has returned Ok.
C2_ExitStops ==
    (call.result # "no call" /\ IsExit(call.input)) =>
        /\ call.result = "Ok"
        /\ ~shell.running
        /\ shell.input_line = <<>> /\ shell.cursor_pos = 0

\* C3: in every reachable state (here: every state between two calls),
\* running == false implies that the child handle and the output-channel
\* receiver are both None.
C3_StoppedReleased ==
    (pc = "idle" /\ ~shell.running) =>
        shell.child = "None" /\ shell.output_receiver = "None"

\* C4: for a session whose shell was spawned and whose child is alive,
\* execute_command with a non-`exit` line has written that line (and its
\* newline) to the child's standard input and the session is still running.
C4_LineWritten ==
    (call.result = "Ok" /\ ~IsExit(call.input) /\ proc = "alive") =>
        /\ stdin_data # <<>> /\ stdin_data[Len(stdin_data)] = call.input
        /\ shell.running

\* C5: when the child's input stream is unavailable, execute_command with a
\* non-`exit` input returns the shell-input-write error and running is
\* false afterwards.
C5_InputErrorReported ==
    (Returned /\ ~IsExit(call.input) /\ shell.child_stdin = "None") =>
        call.result = "ShellInputError" /\ ~shell.running

\* C6: once running == false, every further call to poll_output is a
\* no-op: lines, running, input line, history, child handle and channel
\* are unchanged.
C6_PollNoOpWhenStopped ==
    [][(PollOutput /\ ~shell.running) => (shell' = shell /\ chan' = chan)]_vars

\* C7: in every interleaving of the two readers and the polls, the lines of
\* the line buffer that came from one stream are in the order that stream's
\* reader read them.
C7_PerStreamOrder ==
    \A s \in Streams :
        IsPrefix(FromStream(shell.lines, s), StreamLines(s, consumed[s]))

\* C7 witness: both streams' lines are in the buffer, a stderr line between
\* two stdout lines.
C7_Witness ==
    \E i, j, k \in 1..Len(shell.lines) :
        /\ i < j /\ j < k
        /\ shell.lines[i] = StreamLine("stdout", 1)
        /\ shell.lines[j] = StreamLine("stderr", 1)
        /\ shell.lines[k] = StreamLine("stdout", 2)

Polls == PollOutput \/ ExecuteCommand \/ ExecuteCommandWake
StreamPart(ls) == SelectSeq(ls, LAMBDA l : l.src \in Streams)

\* C8: lines pushed while the session is not polled stay queued; the next
\* poll_output appends every queued line to the line buffer exactly once
\* and leaves the channel empty; lines already in the buffer are never
\* removed or altered.
C8_QueuedLinesDeliveredOnce ==
    [][ /\ IsPrefix(shell.lines, shell'.lines)
        /\ IF Polls
           THEN shell.output_receiver = "Some" =>
                  /\ StreamPart(shell'.lines) = StreamPart(shell.lines) \o LinesOf(chan)
                  /\ chan' = <<>>
           ELSE IsPrefix(chan, chan') ]_vars

\* C8 witness: two lines were queued while nobody polled, and a poll has
\* moved both into the line buffer.
C8_Witness ==
    /\ chan = <<>>
    /\ Len(StreamPart(shell.lines)) >= 2
    /\ pc = "idle" /\ shell.running

Occurs(e) == \E i \in 1..Len(dropLog) : dropLog[i] = e
Before(a, b) ==
    \A i, j \in 1..Len(dropLog) : (dropLog[i] = a /\ dropLog[j] = b) => i < j
Joins == { "join " \o s : s \in Streams }

\* C9: teardown drops the child's input-stream handle, then checks the
\* child for exit, then (only if it is still alive) kills it and waits for
\* it, and only after that joins the reader tasks; each reader task is
\* joined at most once.
C9_TeardownOrder ==
    /\ \A i, j \in 1..Len(dropLog) : dropLog[i] = dropLog[j] => i = j
    /\ \A r \in { "try_wait Ok(None)", "try_wait Ok(Some)" } :
          Occurs(r) => Occurs("stdin closed") /\ Before("stdin closed", r)
    /\ Occurs("kill") =>
          Occurs("try_wait Ok(None)") /\ Before("try_wait Ok(None)", "kill")
    /\ Occurs("wait") => Occurs("kill") /\ Before("kill", "wait")
    /\ \A jn \in Joins :
          Occurs(jn) =>
             \/ Occurs("try_wait Ok(Some)") /\ Before("try_wait Ok(Some)", jn)
             \/ Occurs("try_wait Ok(None)") /\ Occurs("wait") /\ Before("wait", jn)

SharedResources ==
    \/ shell.child = "Some"
    \/ shell.output_receiver = "Some"
    \/ shell.reader_thread_handles # <<>>

\* C11: no two Shell values refer to the same child process, stdin handle,
\* output channel or reader-task list, and so the teardown of one value
\* never kills the child or joins the readers while another value that
\* refers to them is live.
C11_ExclusiveResources ==
    /\ clone_live => ~SharedResources
    /\ clone_live => ~Occurs("kill") /\ \A jn \in Joins : ~Occurs(jn)

\* C12: Shell::new always returns a session; when spawning failed the
\* session is not running, its line buffer holds the diagnostic line and it
\* has no child handle, no receiver and no reader tasks.
SpawnFailed == proc = "none"
C12_SpawnFailureAbsorbed ==
    SpawnFailed =>
        /\ ~shell.running
        /\ \E i \in 1..Len(shell.lines) : shell.lines[i] = RvimLine("Error spawning shell")
        /\ shell.child = "None"
        /\ shell.output_receiver = "None"
        /\ shell.reader_thread_handles = <<>>

\* C12 witness: a session whose spawn failed has been constructed and used:
\* a command was executed on it and it was polled.
C12_Witness ==
    /\ SpawnFailed
    /\ calls = 1
    /\ call.result = "Ok"

(***************************************************************************)
(* Windows.                                                                *)
(***************************************************************************)
WindowIndices == 1..Len(ed.windows)
Cells(w) ==
    { <<cx, cy>> \in (w.x..(w.x + w.width - 1)) \X (w.y..(w.y + w.height - 1)) : TRUE }

SplitPartitions(w, split_type) ==
    LET r == Window_split(w, split_type)
        a == r.first
        b == r.second
    IN  /\ r.tag = "Ok"
        /\ a.x = w.x /\ a.y = w.y
        /\ split_type = "Horizontal" =>
               /\ b.x = w.x /\ a.width = w.width /\ b.width = w.width
               /\ b.y = w.y + (w.height \div 2)
               /\ a.height + b.height = w.height
        /\ split_type = "Vertical" =>
               /\ b.y = w.y /\ a.height = w.height /\ b.height = w.height
               /\ b.x = w.x + (w.width \div 2)
               /\ a.width + b.width = w.width
        /\ Cells(a) \cap Cells(b) = {}
        /\ Cells(a) \cup Cells(b) = Cells(w)
C14_SplitPartitions ==
    \A i \in WindowIndices, split_type \in SplitTypes :
        SplitPartitions(ed.windows[i], split_type)

\* C14 witness: splits have produced three windows, among them one that
\* does not start at the left edge, one that does not start at the top and
\* one of odd height.
C14_Witness ==
    /\ Len(ed.windows) = 3
    /\ \E i \in WindowIndices : ed.windows[i].x > 0
    /\ \E i \in WindowIndices : ed.windows[i].y > 0
    /\ \E i \in WindowIndices : ed.windows[i].height % 2 = 1

\* C15: when a window with file path P is split, both resulting windows
\* have file path P.
C15_SplitKeepsFilePath ==
    [][ SplitWindow =>
          LET a == ed.active_window + 1
          IN  /\ ed'.windows[a].file_path = ed.windows[a].file_path
              /\ ed'.windows[a + 1].file_path = ed.windows[a].file_path ]_vars

(***************************************************************************)
(* The Mode state machine.  KeyStep(key) holds of a step in which the main *)
(* loop handles the key.                                                   *)
(***************************************************************************)
KeyStep(key) ==
    /\ ed.run = "loop"
    /\ \E sel \in SelectionsIn(ed), io \in IoIn(ed) : ed' = run_iteration(ed, key, sel, io)
KeyFails(key) ==
    /\ ed.run = "loop"
    /\ \E sel \in SelectionsIn(ed), io \in IoIn(ed) :
          /\ process_keypress(ed, key, sel, io).res = "Err"
          /\ ed' = run_iteration(ed, key, sel, io)
OverlayModes == { "Insert", "Visual", "Command", "FileTree", "Shell" }

\* C16: in every state of the main loop, a key handled while Mode is Normal
\* and the pending-leader flag is set leaves the flag false, whatever the key and whether its command
\* fails or not; the leader key (space) in Normal mode sets the flag and
\* changes nothing else.
C16_LeaderFlag ==
    (ed.run = "loop" /\ ed.mode = "Normal") =>
        \A key \in Keys, sel \in SelectionsIn(ed), io \in IoIn(ed) :
            LET after == run_iteration(ed, key, sel, io)
            IN  /\ ed.waiting_for_second_key => ~after.waiting_for_second_key
                /\ (key = " " /\ ~ed.waiting_for_second_key)
                      => after = [ ed EXCEPT !.waiting_for_second_key = TRUE ]

\* C16 witness: the leader key and then a leader command (e) were handled:
\* the file tree is open and the flag is clear.
C16_Witness ==
    /\ ed.mode = "FileTree"
    /\ ed.tree_visible
    /\ ~ed.waiting_for_second_key

\* C17: from Normal mode, space and then v append a vertical shell buffer,
\* make it the active buffer, record the mode before the split (Normal) in
\* previous_mode and set Mode to Shell; an Escape in Shell mode sets Mode to
\* the recorded mode.
C17_ShellSplitAndBack ==
    [][ /\ (KeyStep("v") /\ ed.mode = "Normal" /\ ed.waiting_for_second_key) =>
              /\ ed'.buffers = Append(ed.buffers, Buffer_from_shell(FALSE))
              /\ ed'.active_buffer = Len(ed.buffers)
              /\ ed'.previous_mode = ed.mode
              /\ ed'.mode = "Shell"
        /\ (KeyStep("Esc") /\ ed.mode = "Shell") =>
              /\ ed'.mode = ed.previous_mode
              /\ ed'.mode = "Normal" ]_vars

\* C17 witness: space, v and Escape were pressed: Mode is Normal again and
\* the vertical shell buffer is the active, last buffer.
C17_Witness ==
    /\ ed.mode = "Normal"
    /\ ~ed.waiting_for_second_key
    /\ Len(ed.buffers) = 2
    /\ ed.buffers[2] = Buffer_from_shell(FALSE)
    /\ ed.active_buffer = 1
    /\ ed.run = "loop"

\* C18: a key whose handling fails (opening the selected file, expanding or
\* collapsing a directory, saving) does not end the main loop: the loop
\* still runs, the quit flag is unset and Mode, previous_mode and the
\* buffer list are as before the key.
C18_KeyFailureContained ==
    [][ \A key \in Keys :
          KeyFails(key) =>
              /\ ed'.run = "loop"
              /\ ~ed'.quit
              /\ ed'.mode = ed.mode
              /\ ed'.previous_mode = ed.previous_mode
              /\ ed'.buffers = ed.buffers ]_vars

\* C19: the main loop ends only when the quit flag is set, and the quit
\* flag is set only by the commands q and wq or by the leader close-window
\* command on the last window with the last buffer.
QuitPath ==
    \/ ed.mode = "Command" /\ ed.command_line \in Cmd_q \cup Cmd_wq
    \/ /\ ed.mode = "Normal" /\ ed.waiting_for_second_key
       /\ Len(ed.windows) = 1 /\ Len(ed.buffers) = 1
C19_QuitOnlyByCommand ==
    [][ /\ (ed.run = "loop" /\ ed'.run # "loop") => ed'.quit
        /\ (~ed.quit /\ ed'.quit) => QuitPath ]_vars

\* C20: in every state of the main loop, an Escape handled in Insert,
\* Visual, Command, FileTree or Shell mode leaves Mode equal to Normal.
C20_EscapeToNormal ==
    (ed.run = "loop" /\ ed.mode \in OverlayModes) =>
        \A sel \in SelectionsIn(ed), io \in IoIn(ed) :
            run_iteration(ed, "Esc", sel, io).mode = "Normal"

\* C20 witness: wq was typed on the command line and Escape, not Enter,
\* ended Command mode: the loop runs on in Normal mode.
C20_Witness ==
    /\ ed.mode = "Normal"
    /\ ed.command_line = <<"w", "q">>
    /\ ~ed.quit
    /\ ed.run = "loop"

\* C21: in every iteration of the main loop, after the event is handled and
\* before the screen is repainted, poll_output is called on every buffer
\* that owns a Shell, the buffers that are not active included.
ShellBuffers(e) == { i \in 0..(Len(e.buffers) - 1) : e.buffers[i + 1].is_shell }
C21_ShellsPolledEachIteration ==
    ed.run = "loop" =>
        \A key \in Pressable(ed), sel \in SelectionsIn(ed), io \in IoIn(ed) :
            LET after == run_iteration(ed, key, sel, io)
            IN  after.run = "loop" => ShellBuffers(after) \subseteq after.polled

\* C22: Enter in Command mode with a command line other than w, write, q,
\* quit, wq and help has no effect but the return to Normal mode: quit stays
\* unset, buffers and windows are unchanged and the loop goes on.
KnownCommands == Cmd_w \cup Cmd_q \cup Cmd_wq \cup { << "h", "e", "l", "p" >> }
C23_InsertDeleteRoundTrip ==
    ~buf.document.panicked =>
        \A row \in 0..(Len(buf.document.lines) - 1), c \in InsertChars :
          \A col \in Cols(buf.document, row) :
            LET d == buf.document
                line == d.lines[row + 1]
                i == insert_char(d, row, col, c)
                r == delete_char(i, row, IF col <= Len(line) THEN col ELSE Len(line))
            IN  /\ ~i.panicked
                /\ i.lines[row + 1] = IF col <= Len(line)
                                      THEN String_insert(line, col, c)
                                      ELSE Append(line, c)
                /\ r.removed /\ ~r.d.panicked
                /\ r.d.lines = d.lines

\* C24: save() followed by loading the same path gives the same sequence of
\* lines, also for a Document whose last line is empty; a file of zero
\* lines loads as one empty line.
C24_SaveLoadRoundTrip ==
    (~buf.is_shell /\ ~buf.document.panicked /\ buf.document.filename # "None") =>
        LET d == buf.document
            s == DocBuffer_save(buf, disk, TRUE)
            l == Document_from_file(d.impl, d.filename, s.disk)
        IN  /\ s.b.res = "Ok"
            /\ IF d.lines = <<>> THEN l.lines \in { <<>>, << <<>> >> }
               ELSE l.lines = d.lines

\* C25: every Document has at least one line in every reachable state:
\* after construction, after loading any file (an empty one included) and
\* after any sequence of insert_char, delete_char and save.
C25_AtLeastOneLine == Len(buf.document.lines) >= 1

\* C26: save() on a shell Buffer fails with "cannot save a shell" and
\* writes nothing; save() on a Document without a path fails with "no
\* filename"; the two failures differ; in both cases the lines and the
\* modified flag are unchanged.
C26_SaveRejected ==
    ~buf.document.panicked =>
        \A io \in BOOLEAN :
            LET s == DocBuffer_save(buf, disk, io)
            IN  /\ buf.is_shell =>
                      /\ s.b.res = "Cannot save shell buffer"
                      /\ s.b.res # Document_save(buf.document, disk, io).res
                      /\ s.disk = disk /\ s.b.document = buf.document
                /\ (~buf.is_shell /\ buf.document.filename = "None") =>
                      /\ s.b.res = "No filename specified"
                      /\ s.disk = disk /\ s.b.document = buf.document

\* An edited Document without a path has been refused by save().
C26_Witness ==
    /\ ~buf.is_shell /\ buf.res = "No filename specified"
    /\ buf.document.modified /\ buf.document.lines # << <<>> >>

\* C27: on a TabManager without tabs, switch_to_next_tab and
\* switch_to_prev_tab each return the no-tabs error and change nothing; on
\* one with tabs they succeed and leave current_tab below the number of
\* tabs.
C27_SwitchOnEmptyAndNonEmpty ==
    LET n == switch_to_next_tab(tm)
        p == switch_to_prev_tab(tm)
    IN  IF tm.tabs = <<>>
        THEN /\ n.res = << "TabError" >> /\ p.res = << "TabError" >>
             /\ [ n EXCEPT !.res = tm.res ] = tm
             /\ [ p EXCEPT !.res = tm.res ] = tm
        ELSE /\ n.res = << "Ok" >> /\ p.res = << "Ok" >>
             /\ n.current_tab < Len(n.tabs)
             /\ p.current_tab < Len(p.tabs)
             /\ tm.current_tab < Len(tm.tabs)

\* A switch on a manager without tabs has returned the no-tabs error.
C27_Witness ==
    /\ tm.tabs = <<>> /\ tm.res = << "TabError" >> /\ tm.current_tab = 0

\* C28: after any sequence of create_tab calls, failed ones included, and
\* tab switches, the tabs' ids are strictly increasing with the position,
\* no id is given twice, and the name-to-id map holds exactly one entry for
\* each tab, from its name to its id.
C28_TabIdsAndMap ==
    /\ \A i, j \in 1..Len(tm.tabs) : i < j => tm.tabs[i].id < tm.tabs[j].id
    /\ \A i \in 1..Len(tm.tabs) : tm.tabs[i].id < tm.next_id
    /\ tm.tab_map = { << tm.tabs[i].name, tm.tabs[i].id >> : i \in 1..Len(tm.tabs) }
    /\ Cardinality(tm.tab_map) = Len(tm.tabs)

\* The manager is full and the last create_tab succeeded after a switch.
C28_Witness ==
    /\ Len(tm.tabs) = MaxTabs /\ tm.res[1] = "Ok" /\ Len(tm.res) = 2
    /\ tm.current_tab = 1

\* C29: create_tab with a name that exists fails with tab-exists and leaves
\* the tabs, the map, current_tab and next_id unchanged; a successful
\* create_tab appends the tab and does not change current_tab.
C29_CreateTab ==
    \A name \in TabNames :
        LET r == create_tab(tm, name)
        IN  IF \E i \in 1..Len(tm.tabs) : tm.tabs[i].name = name
            THEN /\ r.res[1] = "TabExists"
                 /\ [ r EXCEPT !.res = tm.res ] = tm
            ELSE /\ r.res[1] = "Ok"
                 /\ Len(r.tabs) = Len(tm.tabs) + 1
                 /\ SubSeq(r.tabs, 1, Len(tm.tabs)) = tm.tabs
                 /\ r.tabs[Len(r.tabs)].name = name
                 /\ r.current_tab = tm.current_tab

\* create_tab has failed on an existing name while the second tab was
\* current.
C29_Witness ==
    /\ tm.res[1] = "TabExists" /\ tm.current_tab = 1 /\ Len(tm.tabs) >= 2

\* C30: execute_command takes the exit path exactly when the input line is
\* `exit`; every other line, `exit` with a space before or after it
\* included, is sent to the child as an ordinary command.
C30_ExitOnlyExact ==
    [][(ExecuteCommand /\ call'.result # "none") =>
           ((call'.result = "Ok") <=> IsExit(shell.input_line))]_vars

\* C31: execute_command with a line that is not `exit` and is not blank
\* leaves that line as the last entry of the history and the history cursor
\* at the history's length; with an empty or blank line, and on the exit
\* path, the history and its cursor are unchanged.
C31_HistoryRecorded ==
    [][(ExecuteCommand /\ call'.result # "none") =>
           IF trim(shell.input_line) # <<>> /\ trim(shell.input_line) # ExitText
           THEN /\ shell'.command_history # <<>>
                /\ shell'.command_history[Len(shell'.command_history)] = shell.input_line
                /\ shell'.history_position = Len(shell'.command_history)
           ELSE /\ shell'.command_history = shell.command_history
                /\ shell'.history_position = shell.history_position]_vars

\* C32: with a non-empty history, history_up with the history cursor above
\* 0 moves it back by one and sets the input line to that entry, and does
\* nothing at 0; history_down below the last entry moves forward by one and
\* sets the input line to that entry; on the last entry it puts the cursor
\* one past the end and empties the input line; one past the end it changes
\* nothing.  The history cursor stays within 0..=history length.
C32_HistoryNavigation ==
    LET h == shell.command_history
        p == shell.history_position
        u == history_up(shell)
    IN  /\ p \in 0..Len(h)
        /\ (pc = "idle" /\ h # <<>>) =>
              /\ IF p > 0
                 THEN u = [shell EXCEPT !.history_position = p - 1,
                                        !.input_line = h[p],
                                        !.cursor_pos = u.cursor_pos]
                 ELSE u = shell
              /\ \A overflow_checks \in BOOLEAN :
                    LET d == history_down(shell, overflow_checks)
                    IN  /\ ~d.panics
                        /\ d.self =
                             IF p < Len(h) - 1
                             THEN [shell EXCEPT !.history_position = p + 1,
                                                !.input_line = h[p + 2],
                                                !.cursor_pos = d.self.cursor_pos]
                             ELSE IF p = Len(h) - 1
                             THEN [shell EXCEPT !.history_position = Len(h),
                                                !.input_line = <<>>,
                                                !.cursor_pos = d.self.cursor_pos]
                             ELSE shell

\* history_up has walked back to the first of two entries.
C32_Witness ==
    /\ Len(shell.command_history) = 2 /\ shell.history_position = 0
    /\ shell.input_line = shell.command_history[1]

\* C33: after any sequence of input_char, input_backspace, input_delete,
\* move_cursor_left, move_cursor_right, history_up, history_down and
\* execute_command, the input cursor is between 0 and the length of the
\* input line; and the five editing operations change nothing but the
\* input line and its cursor: not the captured lines, running, the history
\* or the child and channel handles.
Editing(self) ==
    { input_backspace(self), input_delete(self), move_cursor_left(self),
      move_cursor_right(self) } \cup { input_char(self, c) : c \in InputChars }
C33_InputCursorInLine ==
    /\ shell.cursor_pos \in 0..Len(shell.input_line)
    /\ \A after \in Editing(shell) :
          /\ after.cursor_pos \in 0..Len(after.input_line)
          /\ [after EXCEPT !.input_line = shell.input_line,
                           !.cursor_pos = shell.cursor_pos] = shell

\* The cursor has been moved back into a line of two typed characters.
C33_Witness ==
    /\ shell.input_line = << "s", "l" >> /\ shell.cursor_pos = 1

\* C35: once running is false, no poll_output, execute_command, editing or
\* history operation makes it true again.
C35_RunningMonotone == [][~shell.running => ~shell'.running]_vars

\* A session whose spawn failed has executed a command and been typed into
\* afterwards, and is still not running.
C35_Witness ==
    /\ proc = "none" /\ ~shell.running
    /\ calls = MaxCommands /\ shell.input_line # <<>>

\* C36: with an empty history, history_up and history_down complete without
\* failing (`history length - 1` does not underflow) and leave the input
\* line, its cursor and the history cursor unchanged.
C36_EmptyHistoryNavigation ==
    (pc = "idle" /\ shell.command_history = <<>>) =>
        /\ history_up(shell) = shell
        /\ \A overflow_checks \in BOOLEAN :
              LET d == history_down(shell, overflow_checks)
              IN  ~d.panics /\ d.self = shell

\* C34: under fair scheduling a reader thread terminates once its stream
\* has reached end-of-file (the child is dead); a read error and a failed
\* send end it at once.  When both readers have terminated the channel is
\* disconnected, and the next poll_output, having drained the remaining
\* lines, observes the disconnect and sets running to false.
PollStep == PollOutput \/ ExecuteCommand \/ ExecuteCommandWake
C34_ReadersEndAndDisconnect ==
    /\ \A s \in Streams :
          (reader[s] = "reading" /\ proc \in { "exited", "reaped" })
              ~> (reader[s] = "done")
    /\ [][\A s \in Streams :
              (ReaderError(s)
                 \/ (ReaderLine(s) /\ (shell.output_receiver = "None" \/ pc = "dropped")))
                  => reader'[s] = "done"]_vars
    /\ [][(PollStep /\ Senders = 0 /\ shell.output_receiver = "Some") =>
              /\ ~shell'.running
              /\ chan' = <<>>
              /\ shell'.lines = shell.lines \o LinesOf(chan)]_vars

\* Both readers have ended, and a poll has drained the child's lines and
\* found the channel disconnected.
C34_Witness ==
    /\ \A s \in Streams : reader[s] = "done"
    /\ proc # "reaped" /\ chan = <<>>
    /\ ~shell.running /\ Blocked
    /\ \E i \in 1..Len(shell.lines) : shell.lines[i] \in { StreamLine(s, 1) : s \in Streams }

\* C37: in the rope-backed Document (buffer.rs) the rope and the line cache
\* describe the same text in every reachable state: the rope's text split
\* into lines is the cached sequence of lines (a new Document has an empty
\* rope and one empty line), and no insert_char or delete_char, with any row
\* and any col, indexes the rope out of range.
C37_RopeMatchesLines ==
    buf.document.impl = "buffer" =>
        /\ ~buf.document.panicked
        /\ \/ buf.document.lines = str_lines(buf.document.rope)
           \/ buf.document.rope = <<>> /\ buf.document.lines = << <<>> >>

\* C38: in every reachable editor state the buffer list is non-empty and
\* active_buffer is a valid index into it, whatever sequence of open_file,
\* open_shell and close_current_buffer led there; close_current_buffer with
\* a single buffer changes nothing.
C38_ActiveBufferValid ==
    /\ Len(ed.buffers) >= 1
    /\ ed.active_buffer \in 0..(Len(ed.buffers) - 1)
    /\ Len(ed.buffers) = 1 => close_current_buffer(ed) = Ret(ed, "Ok")
    /\ LET c == close_current_buffer(ed).e
       IN  Len(c.buffers) >= 1 /\ c.active_buffer \in 0..(Len(c.buffers) - 1)

\* A shell buffer was opened, a file was opened in its place through the
\* file tree, and the leader key has been pressed: closing this last buffer
\* has to move the active index.
C38_Witness ==
    /\ Len(ed.buffers) = 2 /\ ed.active_buffer = 1
    /\ ed.buffers[2].filename = "f"
    /\ ed.mode = "Normal" /\ ed.waiting_for_second_key

\* C39: whenever a key event has been handled, the mode is FileTree exactly
\* when the file tree is visible: leader e from Normal shows the tree and
\* enters FileTree, and leaving FileTree mode by Escape or by opening a file
\* hides the tree.
C39_FileTreeModeIffVisible ==
    ed.run = "loop" =>
        /\ ed.mode = "FileTree" <=> ed.tree_visible
        /\ (ed.mode = "Normal" /\ ed.waiting_for_second_key) =>
              LET a == process_keypress(ed, "e", "None", TRUE).e
              IN  a.tree_visible /\ a.mode = "FileTree"
        /\ ed.mode = "FileTree" =>
              \A key \in Keys, sel \in Selections, io \in BOOLEAN :
                 LET a == process_keypress(ed, key, sel, io).e
                 IN  a.mode = "FileTree" <=> a.tree_visible

\* A file was opened from the file tree (the window was given no path, as
\* open_file would have), and the tree is hidden again.
C39_Witness ==
    /\ ed.run = "loop" /\ ed.mode = "Normal" /\ ~ed.tree_visible
    /\ ed.buffers[ed.active_buffer + 1].filename = "f"
    /\ ed.windows[ed.active_window + 1].file_path = "None"

\* C40: in every reachable FileTree state with a non-empty entry list the
\* cursor is a valid index into the entries, after any sequence of
\* move_cursor_up, move_cursor_down, move_to_parent, toggle_expand and
\* refresh; so get_selected_path never indexes past the end.
C40_CursorValid ==
    ft.entries # <<>> =>
        /\ ft.cursor < Len(ft.entries)
        /\ ~get_selected_path(ft).panics

====
